---------------------------- MODULE Spec2Model ----------------------------
(***************************************************************************)
(* A model of trifc, the trif-lang native compiler: the regex-driven lexer  *)
(* (native/src/lexer.cpp), the recursive-descent parser                     *)
(* (native/src/parser.cpp), the Python and JavaScript generators            *)
(* (native/src/codegen.cpp), Compiler::compile_source / compile_file        *)
(* (native/src/compiler.cpp) and the command-line driver                    *)
(* (native/src/main.cpp).                                                   *)
(*                                                                         *)
(* Text that the program inspects character by character (source text,     *)
(* token values, rendered expressions) is a sequence of one-character      *)
(* strings.  Token kinds, error messages and command-line arguments are     *)
(* never inspected character by character and are TLA+ strings.            *)
(***************************************************************************)
EXTENDS Integers, Sequences, FiniteSets, TLC

VARIABLES
    pc,         \* control location of the running operation
    caller,     \* who runs the compiler: "main", "session" (a process that
                \* calls Compiler::compile_source repeatedly) or "parser"
    argv,       \* main: the command line after argv[0]
    args,       \* main: the Arguments parse_arguments returned
    io,         \* what the file system answered: open of the input, open
                \* and write of the output ("none", "ok" or "failed")
    source,     \* compile_source / tokenize: the source text
    options,    \* compile_source: the CompileOptions
    index,      \* tokenize: cursor into source (0-based, as in the code)
    line,       \* tokenize: current line (1-based)
    column,     \* tokenize: current column (1-based)
    tokens,     \* the TokenStream built by tokenize and read by the parser
    module,     \* the ModulePtr parser::parse returned, or NoModule
    visitor,    \* the members of the generator's visitor object
    result,     \* the CompileResult compile_source returned, or NoResult
    exc,        \* the message of the exception in flight, or NoExc
    stdout,     \* the lines written to standard output
    stderr,     \* the lines written to standard error
    outfile,    \* the --output file: None until opened, then Some(its lines)
    exit_code,  \* main's return value, or NoExit
    runs,       \* session: the compilations finished so far
    previous    \* parser: the stream and its outcome before the edit

vars == <<pc, caller, argv, args, io, source, options, index, line, column,
          tokens, module, visitor, result, exc, stdout, stderr, outfile,
          exit_code, runs, previous>>

mainVars == <<argv, args, io, stdout, stderr, outfile, exit_code>>

lexVars == <<index, line, column>>

---------------------------------------------------------------------------
(* Characters and small helpers on text.                                   *)

NoExc == "<none>"

LowerCase == << "a","b","c","d","e","f","g","h","i","j","k","l","m",
                "n","o","p","q","r","s","t","u","v","w","x","y","z" >>

UpperCase == << "A","B","C","D","E","F","G","H","I","J","K","L","M",
                "N","O","P","Q","R","S","T","U","V","W","X","Y","Z" >>

Range(s) == { s[i] : i \in 1..Len(s) }

Digit == { "0","1","2","3","4","5","6","7","8","9" }

NameStart == Range(LowerCase) \cup Range(UpperCase) \cup { "_" }

NameChar == NameStart \cup Digit

\* std::string built from a character sequence.
RECURSIVE Join(_)
Join(s) == IF s = <<>> THEN "" ELSE Head(s) \o Join(Tail(s))

\* Length of the longest prefix of s whose characters all lie in set.
RECURSIVE Span(_, _)
Span(s, set) ==
    IF s = <<>> \/ Head(s) \notin set THEN 0 ELSE 1 + Span(Tail(s), set)

\* s.substr(from) with a 0-based offset.
Drop(s, n) == SubSeq(s, n + 1, Len(s))

Take(s, n) == SubSeq(s, 1, IF n < Len(s) THEN n ELSE Len(s))

\* std::string_view::find: 0-based offset of the first occurrence of the
\* two-character text <<a, b>> in s, or -1 (npos).
RECURSIVE Find2(_, _, _, _)
Find2(s, a, b, from) ==
    IF from + 2 > Len(s) THEN -1
    ELSE IF s[from + 1] = a /\ s[from + 2] = b THEN from
    ELSE Find2(s, a, b, from + 1)

\* std::count(value.begin(), value.end(), c)
RECURSIVE Count(_, _)
Count(s, c) ==
    IF s = <<>> THEN 0
    ELSE (IF Head(s) = c THEN 1 ELSE 0) + Count(Tail(s), c)

\* value.find_last_of(c): 0-based offset of the last c in s (s holds one).
RECURSIVE FindLast(_, _)
FindLast(s, c) ==
    IF s[Len(s)] = c THEN Len(s) - 1 ELSE FindLast(Take(s, Len(s) - 1), c)

---------------------------------------------------------------------------
(* Lexer: native/src/lexer.cpp                                             *)

\* The regex of each pattern, as the length of its match at the start of
\* s (match_continuous); 0 when it does not match.  Every pattern matches
\* at least one character when it matches.

\* \d+(?:\.\d+)?
MatchNumber(s) ==
    LET n == Span(s, Digit)
        m == IF n + 1 <= Len(s) /\ s[n + 1] = "." THEN Span(Drop(s, n + 1), Digit)
             ELSE 0
    IN  IF n = 0 THEN 0 ELSE IF m > 0 THEN n + 1 + m ELSE n

\* ("([^"\\]|\\.)*")|('([^'\\]|\\.)*') from offset i (1-based) after the
\* opening quote q: the offset of the closing quote, 0 when there is none.
\* The two alternatives of the group start with different characters, so
\* the match is decided without backtracking; "." excludes line ends.
RECURSIVE StringScan(_, _, _)
StringScan(s, i, q) ==
    IF i > Len(s) THEN 0
    ELSE IF s[i] = q THEN i
    ELSE IF s[i] = "\\"
         THEN IF i + 1 <= Len(s) /\ s[i + 1] \notin { "\n", "\r" }
              THEN StringScan(s, i + 2, q)
              ELSE 0
    ELSE StringScan(s, i + 1, q)

MatchString(s) ==
    IF s # <<>> /\ s[1] \in { "\"", "'" } THEN StringScan(s, 2, s[1]) ELSE 0

\* //[^\n]*
MatchComment(s) ==
    IF Len(s) >= 2 /\ s[1] = "/" /\ s[2] = "/"
    THEN 2 + (LET rest == Drop(s, 2)
                  nl == CHOOSE k \in 0..Len(rest) :
                          /\ \A j \in 1..k : rest[j] # "\n"
                          /\ (k = Len(rest) \/ rest[k + 1] = "\n")
              IN  nl)
    ELSE 0

\* [A-Za-z_][A-Za-z0-9_]*
MatchName(s) ==
    IF s # <<>> /\ s[1] \in NameStart THEN 1 + Span(Tail(s), NameChar) ELSE 0

TwoCharOps == { <<"=","=">>, <<"!","=">>, <<"<","=">>, <<">","=">>,
                <<"=",">">>, <<"&","&">>, <<"|","|">> }

OneCharOps == { "+", "-", "*", "/", "%", "=", "<", ">", "!" }

\* The OP pattern with the character class as its first alternative.
MatchOpClassFirst(s) ==
    IF s # <<>> /\ s[1] \in OneCharOps THEN 1
    ELSE IF Len(s) >= 2 /\ <<s[1], s[2]>> \in TwoCharOps THEN 2
    ELSE 0

\* ==|!=|<=|>=|=>|&&|\|\||[+\-*/%=<>!]  (the first alternative that matches)
MatchOp(s) ==
    IF Len(s) >= 2 /\ <<s[1], s[2]>> \in TwoCharOps THEN 2
    ELSE IF s # <<>> /\ s[1] \in OneCharOps THEN 1
    ELSE 0

MatchChar(s, c) == IF s # <<>> /\ s[1] = c THEN 1 ELSE 0

\* token_patterns(): the pattern names in priority order.
token_patterns ==
    << "NUMBER", "STRING", "COMMENT", "NAME", "OP", "NEWLINE", "SKIP",
       "LPAREN", "RPAREN", "LBRACE", "RBRACE", "LBRACKET", "RBRACKET",
       "COMMA", "COLON", "DOT", "SEMICOLON" >>

\* std::regex_search(remaining, match, pattern.regex, match_continuous)
MatchLen(name, s) ==
    CASE name = "NUMBER"    -> MatchNumber(s)
      [] name = "STRING"    -> MatchString(s)
      [] name = "COMMENT"   -> MatchComment(s)
      [] name = "NAME"      -> MatchName(s)
      [] name = "OP"        -> MatchOp(s)
      [] name = "NEWLINE"   -> MatchChar(s, "\n")
      [] name = "SKIP"      -> Span(s, { " ", "\t" })
      [] name = "LPAREN"    -> MatchChar(s, "(")
      [] name = "RPAREN"    -> MatchChar(s, ")")
      [] name = "LBRACE"    -> MatchChar(s, "{")
      [] name = "RBRACE"    -> MatchChar(s, "}")
      [] name = "LBRACKET"  -> MatchChar(s, "[")
      [] name = "RBRACKET"  -> MatchChar(s, "]")
      [] name = "COMMA"     -> MatchChar(s, ",")
      [] name = "COLON"     -> MatchChar(s, ":")
      [] name = "DOT"       -> MatchChar(s, ".")
      [] name = "SEMICOLON" -> MatchChar(s, ";")

\* The for loop over token_patterns(): the first pattern that matches, as
\* [kind, len]; kind "" when none does.
FirstMatch(s) ==
    LET hits == { i \in 1..Len(token_patterns) : MatchLen(token_patterns[i], s) > 0 }
    IN  IF hits = {} THEN [kind |-> "", len |-> 0]
        ELSE LET i == CHOOSE k \in hits : \A j \in hits : k <= j
             IN  [kind |-> token_patterns[i], len |-> MatchLen(token_patterns[i], s)]

kKeywords ==
    { "let", "fn", "function", "return", "if", "else", "while",
      "for", "in", "true", "false", "null", "import", "as",
      "from", "const", "export", "default", "spawn" }

\* is_keyword that ignores the case of the letters.
is_keyword_any_case(value) ==
    Join([i \in 1..Len(value) |->
            IF value[i] \in Range(UpperCase)
            THEN LowerCase[CHOOSE j \in 1..Len(UpperCase) : UpperCase[j] = value[i]]
            ELSE value[i]]) \in kKeywords

is_keyword(value) == Join(value) \in kKeywords

\* std::toupper of one character.
ToUpper(c) ==
    IF c \in Range(LowerCase)
    THEN UpperCase[CHOOSE i \in 1..Len(LowerCase) : LowerCase[i] = c]
    ELSE c

uppercase(value) == [i \in 1..Len(value) |-> ToUpper(value[i])]

\* The loop of decode_string_literal over content, from 1-based offset i.
RECURSIVE DecodeFrom(_, _)
DecodeFrom(content, i) ==
    IF i > Len(content) THEN <<>>
    ELSE IF content[i] = "\\" /\ i + 1 <= Len(content)
         THEN LET next == content[i + 1]
                  out == CASE next = "n" -> "\n"
                           [] next = "t" -> "\t"
                           [] next = "r" -> "\r"
                           [] OTHER      -> next
              IN  <<out>> \o DecodeFrom(content, i + 2)
    ELSE <<content[i]>> \o DecodeFrom(content, i + 1)

\* decode_string_literal that strips the quotes and leaves the escapes alone.
decode_string_literal_raw(raw) ==
    IF Len(raw) < 2 THEN raw ELSE SubSeq(raw, 2, Len(raw) - 1)

decode_string_literal(raw) ==
    IF Len(raw) < 2 THEN raw
    ELSE DecodeFrom(SubSeq(raw, 2, Len(raw) - 1), 1)

Token(type, value, ln, col) ==
    [type |-> type, value |-> value, line |-> ln, column |-> col]

\* The state of tokenize's loop.
LexState(i, ln, col, toks, err) ==
    [index |-> i, line |-> ln, column |-> col, tokens |-> toks, exc |-> err]

remaining(src, i) == Drop(src, i)

AtBlockComment(src, i) == Take(remaining(src, i), 2) = <<"/", "*">>

\* tokenize, the block-comment branch of one loop iteration.
tokenize_comment(src, st) ==
    LET rem == remaining(src, st.index)
        end == Find2(rem, "*", "/", 0)
    IN  IF end = -1
        THEN [st EXCEPT !.exc = "Unterminated block comment at line "
                                  \o ToString(st.line)]
        ELSE LET value == Take(rem, end + 2)
                 newline_count == Count(value, "\n")
             IN  [st EXCEPT
                    !.line = st.line + newline_count,
                    !.column = IF newline_count > 0
                               THEN Len(value) - FindLast(value, "\n")
                               ELSE st.column + Len(value),
                    !.index = st.index + Len(value)]

\* tokenize whose SKIP / COMMENT branch goes to the next iteration before
\* the statement that advances index.
tokenize_match_skip_stays(src, st) ==
    LET rem == remaining(src, st.index)
        m == FirstMatch(rem)
        value == Take(rem, m.len)
    IN  IF m.kind = ""
        THEN [st EXCEPT !.exc = "Unexpected character '" \o src[st.index + 1]
                                  \o "' at line " \o ToString(st.line)
                                  \o " column " \o ToString(st.column)]
        ELSE IF m.kind = "NEWLINE"
        THEN [st EXCEPT
                !.tokens = Append(st.tokens, Token(m.kind, value, st.line, st.column)),
                !.line = st.line + 1,
                !.column = 1,
                !.index = st.index + m.len]
        ELSE IF m.kind \in { "SKIP", "COMMENT" }
        THEN [st EXCEPT !.column = st.column + Len(value)]
        ELSE LET kind == IF m.kind = "NAME" /\ is_keyword(value)
                         THEN Join(uppercase(value)) ELSE m.kind
                 val == IF kind = "STRING" THEN decode_string_literal(value)
                        ELSE value
             IN  [st EXCEPT
                    !.tokens = Append(st.tokens, Token(kind, val, st.line, st.column)),
                    !.column = st.column + m.len,
                    !.index = st.index + m.len]

\* tokenize, the pattern branch of one loop iteration.
tokenize_match(src, st) ==
    LET rem == remaining(src, st.index)
        m == FirstMatch(rem)
        value == Take(rem, m.len)
    IN  IF m.kind = ""
        THEN [st EXCEPT !.exc = "Unexpected character '" \o src[st.index + 1]
                                  \o "' at line " \o ToString(st.line)
                                  \o " column " \o ToString(st.column)]
        ELSE IF m.kind = "NEWLINE"
        THEN [st EXCEPT
                !.tokens = Append(st.tokens, Token(m.kind, value, st.line, st.column)),
                !.line = st.line + 1,
                !.column = 1,
                !.index = st.index + m.len]
        ELSE IF m.kind \in { "SKIP", "COMMENT" }
        THEN [st EXCEPT !.column = st.column + Len(value),
                        !.index = st.index + m.len]
        ELSE LET kind == IF m.kind = "NAME" /\ is_keyword(value)
                         THEN Join(uppercase(value)) ELSE m.kind
                 val == IF kind = "STRING" THEN decode_string_literal(value)
                        ELSE value
             IN  [st EXCEPT
                    !.tokens = Append(st.tokens, Token(kind, val, st.line, st.column)),
                    !.column = st.column + m.len,
                    !.index = st.index + m.len]

\* tokenize that returns without pushing the EOF token.
tokenize_without_eof(st) == st

\* tokenize, after the loop.
tokenize_eof(st) ==
    [st EXCEPT !.tokens = Append(st.tokens, Token("EOF", <<>>, st.line, st.column))]

\* tokenize(source): the loop run to its end, as [tokens, exc].
RECURSIVE tokenize_loop(_, _)
tokenize_loop(src, st) ==
    IF st.exc # NoExc THEN st
    ELSE IF st.index >= Len(src) THEN tokenize_eof(st)
    ELSE IF AtBlockComment(src, st.index)
         THEN tokenize_loop(src, tokenize_comment(src, st))
    ELSE tokenize_loop(src, tokenize_match(src, st))

tokenize(src) == tokenize_loop(src, LexState(0, 1, 1, <<>>, NoExc))

---------------------------------------------------------------------------
(* AST: native/include/trif/ast.hpp.  A node is a record with its kind and  *)
(* the fields of its struct; std::optional<T> is a sequence of length 0 or 1.*)

None == <<>>

Some(v) == <<v>>

Name(id) == [kind |-> "Name", id |-> id]

Number(value) == [kind |-> "Number", value |-> value]

String(value) == [kind |-> "String", value |-> value]

Boolean(value) == [kind |-> "Boolean", value |-> value]

Null == [kind |-> "Null"]

BinaryOp(left, op, right) ==
    [kind |-> "BinaryOp", left |-> left, op |-> op, right |-> right]

UnaryOp(op, operand) == [kind |-> "UnaryOp", op |-> op, operand |-> operand]

Call(func, arguments) == [kind |-> "Call", func |-> func, args |-> arguments]

Attribute(value, attr) == [kind |-> "Attribute", value |-> value, attr |-> attr]

ListLiteral(elements) == [kind |-> "ListLiteral", elements |-> elements]

DictLiteral(pairs) == [kind |-> "DictLiteral", pairs |-> pairs]

Module(body) == [kind |-> "Module", body |-> body]

ImportFrom(module_name, names, default_name, namespace_name) ==
    [kind |-> "ImportFrom", module |-> module_name, names |-> names,
     default_name |-> default_name, namespace_name |-> namespace_name]

Import(module_name, alias) ==
    [kind |-> "Import", module |-> module_name, alias |-> alias]

Let(name, value, mutable_flag, exported, is_default) ==
    [kind |-> "Let", name |-> name, value |-> value, mutable_flag |-> mutable_flag,
     exported |-> exported, is_default |-> is_default]

Assign(target, value) == [kind |-> "Assign", target |-> target, value |-> value]

FunctionDef(name, params, body, exported, is_default) ==
    [kind |-> "FunctionDef", name |-> name, params |-> params, body |-> body,
     exported |-> exported, is_default |-> is_default]

ExportNames(names, src) == [kind |-> "ExportNames", names |-> names, source |-> src]

ExportDefault(value) == [kind |-> "ExportDefault", value |-> value]

Return(value) == [kind |-> "Return", value |-> value]

If(test, body, orelse) ==
    [kind |-> "If", test |-> test, body |-> body, orelse |-> orelse]

While(test, body) == [kind |-> "While", test |-> test, body |-> body]

For(target, iterator, body) ==
    [kind |-> "For", target |-> target, iterator |-> iterator, body |-> body]

Spawn(call) == [kind |-> "Spawn", call |-> call]

---------------------------------------------------------------------------
(* Parser: native/src/parser.cpp.  A parse function takes the token stream  *)
(* and the cursor (1-based: index_ + 1) and returns either                  *)
(* [ok |-> TRUE, val, pos] (its value and the cursor after it) or            *)
(* [ok |-> FALSE, err] (the message of the std::runtime_error it throws).    *)

Ok(val, pos) == [ok |-> TRUE, val |-> val, pos |-> pos]

Err(msg) == [ok |-> FALSE, err |-> msg]

\* A std::runtime_error thrown by a member of Parser, with the cursor
\* index_ (1-based here) at the throw.
Throw(msg, pos) == [ok |-> FALSE, err |-> msg, pos |-> pos]

\* What a read of tokens_[k] yields when k is outside the vector.
OutOfRange == Token("<out of range>", <<>>, 0, 0)

\* tokens_[index_]
current(toks, i) == IF i \in 1..Len(toks) THEN toks[i] ELSE OutOfRange

\* tokens_[index_ + offset], offset = 1
peek(toks, i) == current(toks, i + 1)

\* consume(expected): the token and the advanced cursor, or the error.
consume(toks, i, expected) ==
    LET token == current(toks, i)
    IN  IF expected # "" /\ token.type # expected
        THEN Throw("Expected " \o expected \o " but got " \o token.type
                   \o " at line " \o ToString(token.line), i)
        ELSE Ok(token, i + 1)

\* match(type): whether the current token has the type (the cursor then
\* advances by one).
match(toks, i, type) == current(toks, i).type = type

IsOp(toks, i, value) ==
    current(toks, i).type = "OP" /\ current(toks, i).value = value

\* std::stod on the text of a NUMBER token (digits, optionally "." and
\* digits): the decimal value num / 10^scale, fraction zeros stripped, so
\* that equal doubles are equal values.
RECURSIVE ToNat(_)
ToNat(digits) ==
    IF digits = <<>> THEN 0
    ELSE 10 * ToNat(Take(digits, Len(digits) - 1))
         + (CHOOSE d \in 0..9 : ToString(d) = digits[Len(digits)])

RECURSIVE StripZeros(_)
StripZeros(digits) ==
    IF digits # <<>> /\ digits[Len(digits)] = "0"
    THEN StripZeros(Take(digits, Len(digits) - 1))
    ELSE digits

stod(text) ==
    LET n == Span(text, Digit)
        frac == StripZeros(Drop(text, n + 1))
    IN  [num |-> ToNat(Take(text, n) \o frac), scale |-> Len(frac)]

\* The levels with the operators of parse_term and parse_factor exchanged.
LevelOpsExchanged ==
    << { <<"|","|">> },
       { <<"&","&">> },
       { <<"=","=">>, <<"!","=">> },
       { <<"<">>, <<">">>, <<"<","=">>, <<">","=">> },
       { <<"*">>, <<"/">>, <<"%">> },
       { <<"+">>, <<"-">> } >>

\* The binary levels parse_or, parse_and, parse_equality, parse_comparison,
\* parse_term, parse_factor (1..6): the operators each loop accepts.
LevelOps ==
    << { <<"|","|">> },
       { <<"&","&">> },
       { <<"=","=">>, <<"!","=">> },
       { <<"<">>, <<">">>, <<"<","=">>, <<">","=">> },
       { <<"+">>, <<"-">> },
       { <<"*">>, <<"/">>, <<"%">> } >>

\* Sequencing of parse steps: F applied to the outcome r of the step before
\* it, unless that step threw, and then its exception propagates.
Then(r, F(_)) == IF r.ok THEN F(r) ELSE r

RECURSIVE parse_expression(_, _), parse_level(_, _, _), level_loop(_, _, _),
          parse_unary(_, _), parse_call_expression(_, _), call_loop(_, _),
          expression_list(_, _, _), dict_pairs(_, _, _), parse_primary(_, _)

\* parse_expression() { return parse_or(); }
parse_expression(toks, i) == parse_level(1, toks, i)

\* The operand of binary level lv: the next level, parse_unary below
\* parse_factor.
level_operand(lv, toks, i) ==
    IF lv = Len(LevelOps) THEN parse_unary(toks, i)
    ELSE parse_level(lv + 1, toks, i)

\* parse_or .. parse_factor.
parse_level(lv, toks, i) ==
    Then(level_operand(lv, toks, i), LAMBDA first : level_loop(lv, toks, first))

\* The while loop of a binary level: expr is the tree built so far.
level_loop(lv, toks, expr) ==
    IF current(toks, expr.pos).type = "OP"
       /\ current(toks, expr.pos).value \in LevelOps[lv]
    THEN Then(level_operand(lv, toks, expr.pos + 1),
              LAMBDA right :
                level_loop(lv, toks,
                           Ok(BinaryOp(expr.val, current(toks, expr.pos).value,
                                       right.val),
                              right.pos)))
    ELSE expr

parse_unary(toks, i) ==
    IF IsOp(toks, i, <<"-">>) \/ IsOp(toks, i, <<"!">>)
    THEN Then(parse_unary(toks, i + 1),
              LAMBDA operand :
                Ok(UnaryOp(current(toks, i).value, operand.val), operand.pos))
    ELSE parse_call_expression(toks, i)

parse_call_expression(toks, i) ==
    Then(parse_primary(toks, i), LAMBDA expr : call_loop(toks, expr))

\* while (true) { push(parse_expression()); if (!match(COMMA)) break; }
expression_list(toks, i, acc) ==
    Then(parse_expression(toks, i),
         LAMBDA e :
           IF match(toks, e.pos, "COMMA")
           THEN expression_list(toks, e.pos + 1, Append(acc, e.val))
           ELSE Ok(Append(acc, e.val), e.pos))

\* if (current != close) { the loop above }: the call arguments and the
\* list elements.
expressions_until(toks, i, close) ==
    IF current(toks, i).type # close THEN expression_list(toks, i, <<>>)
    ELSE Ok(<<>>, i)

\* The postfix loop of parse_call_expression.
call_loop(toks, expr) ==
    IF match(toks, expr.pos, "LPAREN")
    THEN Then(expressions_until(toks, expr.pos + 1, "RPAREN"),
              LAMBDA arglist :
                Then(consume(toks, arglist.pos, "RPAREN"),
                     LAMBDA close :
                       call_loop(toks, Ok(Call(expr.val, arglist.val), close.pos))))
    ELSE IF match(toks, expr.pos, "DOT")
    THEN Then(consume(toks, expr.pos + 1, "NAME"),
              LAMBDA attr :
                call_loop(toks, Ok(Attribute(expr.val, attr.val.value), attr.pos)))
    ELSE expr

\* The loop of the dict literal: key, COLON, value, then COMMA or the end.
dict_pairs(toks, i, acc) ==
    Then(parse_expression(toks, i),
         LAMBDA key :
           Then(consume(toks, key.pos, "COLON"),
                LAMBDA colon :
                  Then(parse_expression(toks, colon.pos),
                       LAMBDA value :
                         IF match(toks, value.pos, "COMMA")
                         THEN dict_pairs(toks, value.pos + 1,
                                         Append(acc, <<key.val, value.val>>))
                         ELSE Ok(Append(acc, <<key.val, value.val>>), value.pos))))

\* A step's value kept, the cursor moved past the token of type `close`.
closed_by(toks, r, close, Node(_)) ==
    Then(consume(toks, r.pos, close), LAMBDA c : Ok(Node(r.val), c.pos))

Same(x) == x

parse_primary(toks, i) ==
    CASE current(toks, i).type = "NUMBER" ->
            Ok(Number(stod(current(toks, i).value)), i + 1)
      [] current(toks, i).type = "STRING" -> Ok(String(current(toks, i).value), i + 1)
      [] current(toks, i).type = "TRUE"   -> Ok(Boolean(TRUE), i + 1)
      [] current(toks, i).type = "FALSE"  -> Ok(Boolean(FALSE), i + 1)
      [] current(toks, i).type = "NULL"   -> Ok(Null, i + 1)
      [] current(toks, i).type = "NAME"   -> Ok(Name(current(toks, i).value), i + 1)
      [] current(toks, i).type = "LPAREN" ->
            Then(parse_expression(toks, i + 1),
                 LAMBDA expr : closed_by(toks, expr, "RPAREN", Same))
      [] current(toks, i).type = "LBRACKET" ->
            Then(expressions_until(toks, i + 1, "RBRACKET"),
                 LAMBDA elements : closed_by(toks, elements, "RBRACKET", ListLiteral))
      [] current(toks, i).type = "LBRACE" ->
            Then(IF current(toks, i + 1).type # "RBRACE"
                 THEN dict_pairs(toks, i + 1, <<>>)
                 ELSE Ok(<<>>, i + 1),
                 LAMBDA pairs : closed_by(toks, pairs, "RBRACE", DictLiteral))
      [] OTHER -> Throw("Unexpected token " \o current(toks, i).type \o " at line "
                        \o ToString(current(toks, i).line), i)

RECURSIVE parse_dotted_tail(_, _, _)
\* The while loop of parse_dotted_name: dotted so far, cursor i.
parse_dotted_tail(toks, i, dotted) ==
    IF current(toks, i).type = "DOT"
    THEN Then(consume(toks, i + 1, "NAME"),
              LAMBDA name :
                parse_dotted_tail(toks, name.pos, dotted \o <<".">> \o name.val.value))
    ELSE Ok(dotted, i)

parse_dotted_name(toks, i) ==
    Then(consume(toks, i, "NAME"),
         LAMBDA name : parse_dotted_tail(toks, name.pos, name.val.value))

parse_module_specifier(toks, i) ==
    IF current(toks, i).type = "STRING"
    THEN Ok(current(toks, i).value, i + 1)
    ELSE parse_dotted_name(toks, i)

\* if (match("AS")) alias = consume("NAME").value; else the default.
alias_or(toks, i, default) ==
    IF match(toks, i, "AS")
    THEN Then(consume(toks, i + 1, "NAME"), LAMBDA name : Ok(name.val.value, name.pos))
    ELSE Ok(default, i)

\* The while loop of parse_import_specifiers and of parse_export_specifiers
\* (the two bodies are the same): ends at the closing brace or after a
\* specifier that no comma follows.
RECURSIVE specifier_loop(_, _, _)
specifier_loop(toks, i, names) ==
    IF current(toks, i).type = "RBRACE" THEN Ok(names, i)
    ELSE Then(consume(toks, i, "NAME"),
              LAMBDA imported :
                Then(alias_or(toks, imported.pos, imported.val.value),
                     LAMBDA alias :
                       IF match(toks, alias.pos, "COMMA")
                       THEN specifier_loop(toks, alias.pos + 1,
                                           Append(names, <<imported.val.value, alias.val>>))
                       ELSE Ok(Append(names, <<imported.val.value, alias.val>>),
                               alias.pos)))

parse_import_specifiers(toks, i) ==
    Then(consume(toks, i, "LBRACE"),
         LAMBDA open :
           Then(specifier_loop(toks, open.pos, <<>>),
                LAMBDA names : closed_by(toks, names, "RBRACE", Same)))

parse_export_specifiers(toks, i) ==
    Then(consume(toks, i, "LBRACE"),
         LAMBDA open :
           Then(specifier_loop(toks, open.pos, <<>>),
                LAMBDA names : closed_by(toks, names, "RBRACE", Same)))

\* The locals default_target, names, namespace_name of
\* parse_import_statement.
Bindings(default_target, names, namespace_name) ==
    [default_target |-> default_target, names |-> names,
     namespace_name |-> namespace_name]

\* The bindings of an import before FROM, as Ok(Bindings, cursor).
import_bindings(toks, i) ==
    IF current(toks, i).type = "NAME" /\ peek(toks, i).type = "COMMA"
    THEN IF current(toks, i + 2).type = "LBRACE"
         THEN Then(parse_import_specifiers(toks, i + 2),
                   LAMBDA names :
                     Ok(Bindings(Some(current(toks, i).value), names.val, None),
                        names.pos))
         ELSE Throw("Expected named import list after comma", i + 2)
    ELSE IF current(toks, i).type = "NAME" /\ peek(toks, i).type = "FROM"
    THEN Ok(Bindings(Some(current(toks, i).value), <<>>, None), i + 1)
    ELSE IF current(toks, i).type = "LBRACE"
    THEN Then(parse_import_specifiers(toks, i),
              LAMBDA names : Ok(Bindings(None, names.val, None), names.pos))
    ELSE IF IsOp(toks, i, <<"*">>)
    THEN Then(consume(toks, i + 1, "AS"),
              LAMBDA as :
                Then(consume(toks, as.pos, "NAME"),
                     LAMBDA name :
                       Ok(Bindings(None, <<>>, Some(name.val.value)), name.pos)))
    ELSE Ok(Bindings(None, <<>>, None), i)

\* import MODULE [as NAME]
import_plain(toks, i) ==
    Then(parse_module_specifier(toks, i),
         LAMBDA module_name :
           IF match(toks, module_name.pos, "AS")
           THEN Then(consume(toks, module_name.pos + 1, "NAME"),
                     LAMBDA name :
                       Ok(Import(module_name.val, Some(name.val.value)), name.pos))
           ELSE Ok(Import(module_name.val, None), module_name.pos))

\* import BINDINGS from MODULE
import_from(toks, b) ==
    Then(consume(toks, b.pos, "FROM"),
         LAMBDA from :
           Then(parse_module_specifier(toks, from.pos),
                LAMBDA module_name :
                  Ok(ImportFrom(module_name.val, b.val.names, b.val.default_target,
                                b.val.namespace_name),
                     module_name.pos)))

parse_import_statement(toks, i) ==
    Then(consume(toks, i, "IMPORT"),
         LAMBDA kw :
           IF current(toks, kw.pos).type = "STRING"
           THEN import_plain(toks, kw.pos)
           ELSE Then(import_bindings(toks, kw.pos),
                     LAMBDA b :
                       IF b.val.default_target # None \/ b.val.names # <<>>
                          \/ b.val.namespace_name # None
                       THEN import_from(toks, b)
                       ELSE import_plain(toks, b.pos)))

\* optional_newline that takes the end of the input for a terminator as
\* well and consumes the EOF token.
RECURSIVE optional_newline_to_end(_, _)
optional_newline_to_end(toks, i) ==
    IF current(toks, i).type \in { "NEWLINE", "SEMICOLON", "EOF" }
    THEN optional_newline_to_end(toks, i + 1)
    ELSE i

\* optional_newline(): the cursor after the NEWLINE / SEMICOLON tokens.
RECURSIVE optional_newline(_, _)
optional_newline(toks, i) ==
    IF current(toks, i).type \in { "NEWLINE", "SEMICOLON" }
    THEN optional_newline(toks, i + 1)
    ELSE i

\* The parameter loop of parse_function_statement.
RECURSIVE param_loop(_, _, _)
param_loop(toks, i, params) ==
    Then(consume(toks, i, "NAME"),
         LAMBDA name :
           IF match(toks, name.pos, "COMMA")
           THEN param_loop(toks, name.pos + 1, Append(params, name.val.value))
           ELSE Ok(Append(params, name.val.value), name.pos))

RECURSIVE parse_statement(_, _), parse_block(_, _), block_loop(_, _, _),
          parse_function_statement(_, _, _, _), parse_export_statement(_, _)

parse_variable_statement(toks, i, mutable_flag, exported, is_default) ==
    Then(consume(toks, i, "NAME"),
         LAMBDA name :
           IF ~IsOp(toks, name.pos, <<"=">>)
           THEN Throw("Expected '=' in variable declaration", name.pos)
           ELSE Then(parse_expression(toks, name.pos + 1),
                     LAMBDA value :
                       Ok(Let(name.val.value, value.val, mutable_flag, exported,
                              is_default),
                          value.pos)))

\* "_default_export"
DefaultExportName ==
    << "_","d","e","f","a","u","l","t","_","e","x","p","o","r","t" >>

\* The name of parse_function_statement: i is at the FN / FUNCTION token.
function_name(toks, i, is_default) ==
    IF current(toks, i + 1).type = "NAME"
    THEN Ok(current(toks, i + 1).value, i + 2)
    ELSE IF is_default THEN Ok(DefaultExportName, i + 1)
    ELSE Throw("Function declaration requires a name", i + 1)

\* if (current != RPAREN) { the parameter loop }
function_params(toks, i) ==
    IF current(toks, i).type # "RPAREN" THEN param_loop(toks, i, <<>>)
    ELSE Ok(<<>>, i)

parse_function_statement(toks, i, exported, is_default) ==
    Then(function_name(toks, i, is_default),
      LAMBDA name :
        Then(consume(toks, name.pos, "LPAREN"),
          LAMBDA open :
            Then(function_params(toks, open.pos),
              LAMBDA params :
                Then(consume(toks, params.pos, "RPAREN"),
                  LAMBDA close :
                    Then(parse_block(toks, close.pos),
                      LAMBDA body :
                        Ok(FunctionDef(name.val, params.val, body.val, exported,
                                       is_default),
                           body.pos))))))

\* export { ... } [from MODULE]
export_names(toks, i) ==
    Then(parse_export_specifiers(toks, i),
         LAMBDA names :
           IF match(toks, names.pos, "FROM")
           THEN Then(parse_module_specifier(toks, names.pos + 1),
                     LAMBDA m : Ok(ExportNames(names.val, Some(m.val)), m.pos))
           ELSE Ok(ExportNames(names.val, None), names.pos))

\* The declaration or expression after "export" / "export default".
export_declaration(toks, i, is_default) ==
    IF current(toks, i).type \in { "FN", "FUNCTION" }
    THEN parse_function_statement(toks, i, TRUE, is_default)
    ELSE IF current(toks, i).type \in { "LET", "CONST" }
    THEN parse_variable_statement(toks, i + 1, current(toks, i).type = "LET",
                                  TRUE, is_default)
    ELSE IF is_default
    THEN Then(parse_expression(toks, i),
              LAMBDA value : Ok(ExportDefault(value.val), value.pos))
    ELSE IF current(toks, i).type = "LBRACE"
    THEN export_names(toks, i)
    ELSE Throw("Unsupported export statement", i)

parse_export_statement(toks, i) ==
    Then(consume(toks, i, "EXPORT"),
         LAMBDA kw :
           IF current(toks, kw.pos).type = "DEFAULT"
           THEN export_declaration(toks, kw.pos + 1, TRUE)
           ELSE export_declaration(toks, kw.pos, FALSE))

\* The loop of parse_block without the skip of NEWLINE and SEMICOLON.
block_loop_no_skip(toks, i, body) ==
    IF current(toks, i).type = "RBRACE" THEN Ok(body, i)
    ELSE Then(parse_statement(toks, i),
              LAMBDA stmt : block_loop(toks, stmt.pos, Append(body, stmt.val)))

\* The while loop of parse_block.
block_loop(toks, i, body) ==
    IF current(toks, i).type = "RBRACE" THEN Ok(body, i)
    ELSE IF current(toks, i).type \in { "NEWLINE", "SEMICOLON" }
    THEN block_loop(toks, i + 1, body)
    ELSE Then(parse_statement(toks, i),
              LAMBDA stmt : block_loop(toks, stmt.pos, Append(body, stmt.val)))

parse_block(toks, i) ==
    Then(consume(toks, i, "LBRACE"),
         LAMBDA open :
           Then(block_loop(toks, open.pos, <<>>),
                LAMBDA body : closed_by(toks, body, "RBRACE", Same)))

\* RETURN: a value unless a NEWLINE, RBRACE or EOF follows.
ReturnHasValue(toks, i) ==
    current(toks, i).type \notin { "NEWLINE", "RBRACE", "EOF" }

\* if (match("ELSE")) orelse = parse_block();
else_block(toks, i) ==
    IF match(toks, i, "ELSE") THEN parse_block(toks, i + 1) ELSE Ok(<<>>, i)

\* The last branch without the test of the target's kind.
expression_statement_unchecked(toks, i) ==
    Then(parse_expression(toks, i),
         LAMBDA expr :
           IF IsOp(toks, expr.pos, <<"=">>)
           THEN Then(parse_expression(toks, expr.pos + 1),
                     LAMBDA value : Ok(Assign(expr.val, value.val), value.pos))
           ELSE expr)

\* The last branch of parse_statement: an expression, or an assignment when
\* the expression is a Name or an Attribute and "=" follows.
expression_statement(toks, i) ==
    Then(parse_expression(toks, i),
         LAMBDA expr :
           IF expr.val.kind \in { "Name", "Attribute" } /\ IsOp(toks, expr.pos, <<"=">>)
           THEN Then(parse_expression(toks, expr.pos + 1),
                     LAMBDA value : Ok(Assign(expr.val, value.val), value.pos))
           ELSE expr)

\* The SPAWN branch without the test of the expression's kind.
spawn_unchecked(toks, i) ==
    Then(parse_expression(toks, i + 1),
         LAMBDA call_expr : Ok(Spawn(call_expr.val), call_expr.pos))

\* The SPAWN branch of parse_statement.
spawn_statement(toks, i) ==
    Then(parse_expression(toks, i + 1),
         LAMBDA call_expr :
           IF call_expr.val.kind # "Call"
           THEN Throw("spawn expects a function call", call_expr.pos)
           ELSE Ok(Spawn(call_expr.val), call_expr.pos))

\* parse_statement before its final optional_newline().
statement_body(toks, i) ==
    CASE current(toks, i).type = "IMPORT" -> parse_import_statement(toks, i)
      [] current(toks, i).type = "EXPORT" -> parse_export_statement(toks, i)
      [] current(toks, i).type \in { "LET", "CONST" } ->
            parse_variable_statement(toks, i + 1, current(toks, i).type = "LET",
                                     FALSE, FALSE)
      [] current(toks, i).type \in { "FN", "FUNCTION" } ->
            parse_function_statement(toks, i, FALSE, FALSE)
      [] current(toks, i).type = "RETURN" ->
            IF ReturnHasValue(toks, i + 1)
            THEN Then(parse_expression(toks, i + 1),
                      LAMBDA value : Ok(Return(Some(value.val)), value.pos))
            ELSE Ok(Return(None), i + 1)
      [] current(toks, i).type = "IF" ->
            Then(parse_expression(toks, i + 1),
              LAMBDA test :
                Then(parse_block(toks, test.pos),
                  LAMBDA body :
                    Then(else_block(toks, body.pos),
                      LAMBDA orelse :
                        Ok(If(test.val, body.val, orelse.val), orelse.pos))))
      [] current(toks, i).type = "WHILE" ->
            Then(parse_expression(toks, i + 1),
              LAMBDA test :
                Then(parse_block(toks, test.pos),
                  LAMBDA body : Ok(While(test.val, body.val), body.pos)))
      [] current(toks, i).type = "FOR" ->
            Then(consume(toks, i + 1, "NAME"),
              LAMBDA target :
                Then(consume(toks, target.pos, "IN"),
                  LAMBDA in :
                    Then(parse_expression(toks, in.pos),
                      LAMBDA iterator :
                        Then(parse_block(toks, iterator.pos),
                          LAMBDA body :
                            Ok(For(target.val.value, iterator.val, body.val),
                               body.pos)))))
      [] current(toks, i).type = "SPAWN" -> spawn_statement(toks, i)
      [] OTHER -> expression_statement(toks, i)

parse_statement(toks, i) ==
    Then(statement_body(toks, i),
         LAMBDA stmt : Ok(stmt.val, optional_newline(toks, stmt.pos)))

\* The while loop of Parser::parse.
RECURSIVE parse_loop(_, _, _)
parse_loop(toks, i, body) ==
    IF current(toks, i).type = "EOF" THEN Ok(Module(body), i)
    ELSE IF current(toks, i).type \in { "NEWLINE", "SEMICOLON" }
    THEN parse_loop(toks, i + 1, body)
    ELSE Then(parse_statement(toks, i),
              LAMBDA stmt : parse_loop(toks, stmt.pos, Append(body, stmt.val)))

\* parser::parse(tokens)
parse(toks) == parse_loop(toks, 1, <<>>)

---------------------------------------------------------------------------
(* Code generators: native/src/codegen.cpp.  The generated text is the      *)
(* sequence of emitted lines (each ends with the '\n' that emit writes); a  *)
(* line is a sequence of pieces of text.  Rendered expressions, names and   *)
(* string payloads are character by character; fixed pieces of a statement  *)
(* line are written as one piece each.                                      *)

\* A visitor's members: emitter_ (stream_, indent_) and temp_index_
\* (PythonVisitor only); exc is the exception thrown, if any.
VisitorState(stream, indent, temp_index) ==
    [stream |-> stream, indent |-> indent, temp_index |-> temp_index, exc |-> NoExc]

\* IndentedEmitter::emit: std::string(indent_ * 4, ' ') << line << '\n'
emit(v, text) ==
    IF v.exc # NoExc THEN v
    ELSE [v EXCEPT !.stream = Append(@, [k \in 1..(v.indent * 4) |-> " "] \o text)]

\* IndentedEmitter::indent
indent(v) == IF v.exc # NoExc THEN v ELSE [v EXCEPT !.indent = @ + 1]

\* IndentedEmitter::dedent
dedent(v) ==
    IF v.exc # NoExc THEN v
    ELSE IF v.indent = 0 THEN [v EXCEPT !.exc = "Indentation underflow"]
    ELSE [v EXCEPT !.indent = @ - 1]

\* join(values, sep)
RECURSIVE join(_, _)
join(values, sep) ==
    IF values = <<>> THEN <<>>
    ELSE IF Len(values) = 1 THEN values[1]
    ELSE values[1] \o sep \o join(Tail(values), sep)

\* The decimal digits of a natural number, most significant first.
RECURSIVE DigitsOf(_)
DigitsOf(n) ==
    IF n < 10 THEN <<ToString(n)>> ELSE Append(DigitsOf(n \div 10), ToString(n % 10))

RECURSIVE Pow10(_)
Pow10(k) == IF k = 0 THEN 1 ELSE 10 * Pow10(k - 1)

\* oss << double: the default float format (%g, precision 6) of the value
\* num / 10^scale.  Six significant digits, ties to even (exact for the
\* integers, which a double below 2^53 holds exactly); exponent form when
\* the decimal exponent is below -4 or at least 6; trailing zeros dropped.

\* How many low digits of num the six-digit precision drops.
dropped_digits(num) ==
    IF Len(DigitsOf(num)) > 6 THEN Len(DigitsOf(num)) - 6 ELSE 0

\* num without its `cut` low digits, rounded to nearest, ties to even.
round_half_even(num, cut) ==
    IF cut > 0
       /\ \/ num % Pow10(cut) > 5 * Pow10(cut - 1)
          \/ /\ num % Pow10(cut) = 5 * Pow10(cut - 1)
             /\ (num \div Pow10(cut)) % 2 = 1
    THEN num \div Pow10(cut) + 1
    ELSE num \div Pow10(cut)

\* The text for the significant digits sig (no trailing zeros) whose
\* leading digit has decimal exponent x.
format_digits(sig, x) ==
    IF x < -4 \/ x >= 6
    THEN <<Head(sig)>> \o (IF Tail(sig) = <<>> THEN <<>> ELSE <<".">> \o Tail(sig))
         \o <<"e", IF x < 0 THEN "-" ELSE "+">>
         \o (IF x > -10 /\ x < 10 THEN <<"0">> ELSE <<>>)
         \o DigitsOf(IF x < 0 THEN -x ELSE x)
    ELSE IF x >= 0
    THEN IF Len(sig) <= x + 1
         THEN sig \o [k \in 1..(x + 1 - Len(sig)) |-> "0"]
         ELSE Take(sig, x + 1) \o <<".">> \o Drop(sig, x + 1)
    ELSE <<"0", ".">> \o [k \in 1..(-x - 1) |-> "0"] \o sig

format_rounded(kept, cut, scale) ==
    format_digits(StripZeros(DigitsOf(kept)), Len(DigitsOf(kept)) + cut - 1 - scale)

format_double(value) ==
    IF value.num = 0 THEN <<"0">>
    ELSE format_rounded(round_half_even(value.num, dropped_digits(value.num)),
                        dropped_digits(value.num), value.scale)

\* repr_string (the same in both visitors)
RECURSIVE repr_chars(_)
repr_chars(value) ==
    IF value = <<>> THEN <<>>
    ELSE (CASE Head(value) = "\\" -> <<"\\", "\\">>
            [] Head(value) = "\"" -> <<"\\", "\"">>
            [] Head(value) = "\n" -> <<"\\", "n">>
            [] Head(value) = "\t" -> <<"\\", "t">>
            [] Head(value) = "\r" -> <<"\\", "r">>
            [] OTHER -> <<Head(value)>>) \o repr_chars(Tail(value))

repr_string(value) == <<"\"">> \o repr_chars(value) \o <<"\"">>

\* The literals of the two targets: Python's True / False / None and
\* JavaScript's true / false / null.
Literal(js, which) ==
    CASE which = "true"  -> IF js THEN <<"t","r","u","e">> ELSE <<"T","r","u","e">>
      [] which = "false" -> IF js THEN <<"f","a","l","s","e">>
                            ELSE <<"F","a","l","s","e">>
      [] which = "null"  -> IF js THEN <<"n","u","l","l">> ELSE <<"N","o","n","e">>

\* PythonVisitor::render_expression (js = FALSE) and
\* JavaScriptVisitor::render_expression (js = TRUE): the two differ in the
\* literals only.  A node of another kind makes them throw; the parser
\* builds none in an expression position.
RECURSIVE render_expression(_, _), render_all(_, _), render_pairs(_, _)
render_expression(js, expr) ==
    CASE expr.kind = "Name"    -> expr.id
      [] expr.kind = "Number"  -> format_double(expr.value)
      [] expr.kind = "String"  -> repr_string(expr.value)
      [] expr.kind = "Boolean" -> Literal(js, IF expr.value THEN "true" ELSE "false")
      [] expr.kind = "Null"    -> Literal(js, "null")
      [] expr.kind = "BinaryOp" ->
            render_expression(js, expr.left) \o <<" ">> \o expr.op \o <<" ">>
            \o render_expression(js, expr.right)
      [] expr.kind = "UnaryOp" -> expr.op \o render_expression(js, expr.operand)
      [] expr.kind = "Call" ->
            render_expression(js, expr.func) \o <<"(">>
            \o join(render_all(js, expr.args), <<",", " ">>) \o <<")">>
      [] expr.kind = "Attribute" ->
            render_expression(js, expr.value) \o <<".">> \o expr.attr
      [] expr.kind = "ListLiteral" ->
            <<"[">> \o join(render_all(js, expr.elements), <<",", " ">>) \o <<"]">>
      [] expr.kind = "DictLiteral" ->
            <<"{">> \o join(render_pairs(js, expr.pairs), <<",", " ">>) \o <<"}">>

render_all(js, exprs) == [k \in 1..Len(exprs) |-> render_expression(js, exprs[k])]

render_pairs(js, pairs) ==
    [k \in 1..Len(pairs) |->
        render_expression(js, pairs[k][1]) \o <<":", " ">>
        \o render_expression(js, pairs[k][2])]

ExpressionKinds ==
    { "Name", "Number", "String", "Boolean", "Null", "BinaryOp", "UnaryOp",
      "Call", "Attribute", "ListLiteral", "DictLiteral" }

\* emit one line per element of lines
RECURSIVE emit_all(_, _)
emit_all(v, lines) ==
    IF lines = <<>> THEN v ELSE emit_all(emit(v, Head(lines)), Tail(lines))

\* PythonVisitor::temp: the name, and temp_index_ incremented.
temp(v, prefix) == <<"__trif_", prefix, "_">> \o DigitsOf(v.temp_index)

\* temp that does not increment temp_index_.
temp_next_same(v) == v

temp_next(v) == IF v.exc # NoExc THEN v ELSE [v EXCEPT !.temp_index = @ + 1]

\* The two lines in the other order: the default line, then the export
\* line.
py_export_lines_default_first(node) ==
    (IF node.is_default
     THEN << <<"__trif_default_export__ = ">> \o node.name >>
     ELSE <<>>)
    \o (IF node.exported
        THEN << <<"__trif_exports__['">> \o node.name \o <<"'] = ">> \o node.name >>
        ELSE <<>>)

\* The lines "__trif_exports__['<name>'] = <name>" and
\* "__trif_default_export__ = <name>" that follow a Let and a FunctionDef.
py_export_lines(node) ==
    (IF node.exported
     THEN << <<"__trif_exports__['">> \o node.name \o <<"'] = ">> \o node.name >>
     ELSE <<>>)
    \o (IF node.is_default
        THEN << <<"__trif_default_export__ = ">> \o node.name >>
        ELSE <<>>)

\* The Import node after visit_import ran with target declared as a
\* reference to the string it starts from (node->alias's value, or
\* node->module): the loop's writes land in the node.
py_visit_import_node_by_reference(node) ==
    LET Replaced(text) == [k \in 1..Len(text) |->
                             IF text[k] \in { ".", "-" } THEN "_" ELSE text[k]]
    IN  IF node.alias # None
        THEN [node EXCEPT !.alias = Some(Replaced(node.alias[1]))]
        ELSE [node EXCEPT !.module = Replaced(node.module)]

\* The Import node after PythonVisitor::visit_import: target is a
\* std::string copy-initialised from alias.value_or(module), the loop
\* writes the characters of that copy, and the node is only read.
py_visit_import_node(node) == node

\* PythonVisitor::visit_import
py_visit_import(v, node) ==
    LET chosen == IF node.alias # None THEN node.alias[1] ELSE node.module
        target == [k \in 1..Len(chosen) |->
                      IF chosen[k] \in { ".", "-" } THEN "_" ELSE chosen[k]]
    IN  emit(v, target \o <<" = runtime.import_module('">> \o node.module \o <<"')">>)

\* PythonVisitor::visit_import_from
py_visit_import_from(v, node) ==
    LET temp_name == temp(v, "import")
    IN  emit_all(temp_next(v),
          << temp_name \o <<" = runtime.import_module('">> \o node.module \o <<"')">> >>
          \o (IF node.namespace_name # None
              THEN << node.namespace_name[1] \o <<" = ">> \o temp_name >> ELSE <<>>)
          \o (IF node.default_name # None
              THEN << node.default_name[1] \o <<" = runtime.extract_default(">>
                      \o temp_name \o <<")">> >>
              ELSE <<>>)
          \o [k \in 1..Len(node.names) |->
                node.names[k][2] \o <<" = runtime.extract_export(">> \o temp_name
                \o <<", '">> \o node.names[k][1] \o <<"')">>])

\* PythonVisitor::visit_export_names
py_visit_export_names(v, node) ==
    IF node.source # None
    THEN LET temp_name == temp(v, "export")
         IN  emit_all(temp_next(v),
               << temp_name \o <<" = runtime.import_module('">> \o node.source[1]
                  \o <<"')">> >>
               \o [k \in 1..Len(node.names) |->
                     <<"__trif_exports__['">> \o node.names[k][2]
                     \o <<"'] = runtime.extract_export(">> \o temp_name \o <<", '">>
                     \o node.names[k][1] \o <<"')">>])
    ELSE emit_all(v, [k \in 1..Len(node.names) |->
                        <<"__trif_exports__['">> \o node.names[k][2] \o <<"'] = ">>
                        \o node.names[k][1]])

\* PythonVisitor::visit_let
py_visit_let(v, node) ==
    emit_all(v,
      << node.name \o <<" = ">> \o render_expression(FALSE, node.value)
         \o (IF ~node.mutable_flag THEN <<"  # const">> ELSE <<>>) >>
      \o py_export_lines(node))

RECURSIVE py_visit(_, _), py_visit_body(_, _)

\* for (const auto& stmt : body) visit(stmt);
py_visit_body(v, body) ==
    IF body = <<>> \/ v.exc # NoExc THEN v
    ELSE py_visit_body(py_visit(v, Head(body)), Tail(body))

\* visit_function_def that writes "return None" after every body, as the
\* JavaScript visitor writes "return null;".
py_visit_function_def_always(v, node) ==
    emit(emit_all(dedent(emit(py_visit_body(
                    indent(emit(v, <<"def ">> \o node.name \o <<"(">>
                                   \o join(node.params, <<",", " ">>) \o <<"):">>)),
                    node.body), <<"return None">>)),
                  py_export_lines(node)), <<>>)

\* PythonVisitor::visit_function_def
py_visit_function_def(v, node) ==
    LET head == indent(emit(v, <<"def ">> \o node.name \o <<"(">>
                               \o join(node.params, <<",", " ">>) \o <<"):">>))
        body == IF node.body = <<>> THEN emit(head, <<"return None">>)
                ELSE LET done == py_visit_body(head, node.body)
                     IN  IF node.body = <<>>
                            \/ node.body[Len(node.body)].kind # "Return"
                         THEN emit(done, <<"return None">>)
                         ELSE done
    IN  emit(emit_all(dedent(body), py_export_lines(node)), <<>>)

\* PythonVisitor::visit and the visit_* members it dispatches to.
py_visit(v, node) ==
    IF v.exc # NoExc THEN v ELSE
    CASE node.kind = "Import" -> py_visit_import(v, node)
      [] node.kind = "ImportFrom" -> py_visit_import_from(v, node)
      [] node.kind = "Let" -> py_visit_let(v, node)
      [] node.kind = "Assign" ->
            emit(v, render_expression(FALSE, node.target) \o <<" = ">>
                    \o render_expression(FALSE, node.value))
      [] node.kind = "FunctionDef" -> py_visit_function_def(v, node)
      [] node.kind = "Return" ->
            IF node.value = None THEN emit(v, <<"return None">>)
            ELSE emit(v, <<"return ">> \o render_expression(FALSE, node.value[1]))
      [] node.kind = "ExportNames" -> py_visit_export_names(v, node)
      [] node.kind = "ExportDefault" ->
            emit(v, <<"__trif_default_export__ = ">>
                    \o render_expression(FALSE, node.value))
      [] node.kind = "If" ->
            LET body == dedent(py_visit_body(
                          indent(emit(v, <<"if ">> \o render_expression(FALSE, node.test)
                                         \o <<":">>)), node.body))
            IN  IF node.orelse # <<>>
                THEN dedent(py_visit_body(indent(emit(body, <<"else:">>)), node.orelse))
                ELSE body
      [] node.kind = "While" ->
            dedent(py_visit_body(
              indent(emit(v, <<"while ">> \o render_expression(FALSE, node.test)
                             \o <<":">>)), node.body))
      [] node.kind = "For" ->
            dedent(py_visit_body(
              indent(emit(v, <<"for ">> \o node.target \o <<" in ">>
                             \o render_expression(FALSE, node.iterator) \o <<":">>)),
              node.body))
      [] node.kind = "Spawn" ->
            emit(v, <<"runtime.spawn(">> \o render_expression(FALSE, node.call)
                    \o <<")">>)
      [] node.kind \in ExpressionKinds -> emit(v, render_expression(FALSE, node))
      [] OTHER -> [v EXCEPT !.exc = "Unsupported node in Python generator"]

\* A visitor that is not constructed per call but kept between calls, its
\* stream cleared: temp_index_ goes on from where the last call left it.
ReusedVisitor == VisitorState(<<>>, 0, visitor.temp_index)

\* The members of a newly constructed PythonVisitor / JavaScriptVisitor:
\* an empty emitter at indent 0 and temp_index_ = 0.
NewVisitor == VisitorState(<<>>, 0, 0)

\* PythonVisitor::generate, the lines before the loop over the body.
py_prelude(v0) ==
    LET e1 == emit_all(v0,
                << <<"import pathlib">>,
                   <<"import sys">>,
                   <<"_trif_origin = pathlib.Path(__file__).resolve().parent if '__file__' in globals() else pathlib.Path.cwd()">>,
                   <<"for _candidate in (_trif_origin, _trif_origin.parent):">> >>)
        e2 == emit_all(indent(e1),
                << <<"candidate_pkg = _candidate / 'trif_lang'">>,
                   <<"if candidate_pkg.exists():">> >>)
        e3 == emit(indent(e2), <<"if str(_candidate) not in sys.path:">>)
        e4 == dedent(emit(indent(e3), <<"sys.path.insert(0, str(_candidate))">>))
        e5 == dedent(dedent(emit(e4, <<"break">>)))
    IN  emit_all(e5,
          << <<"from trif_lang.runtime import runtime">>,
             <<"__trif_exports__ = {}">>,
             <<"__trif_default_export__ = None">>,
             <<>> >>)

\* PythonVisitor::generate, the lines after the loop over the body.
py_epilogue(v) ==
    dedent(emit(indent(emit_all(v,
                  << <<>>,
                     <<"runtime.register_module_exports(__name__, __trif_exports__, __trif_default_export__)">>,
                     <<>>,
                     <<"if __name__ == '__main__':">> >>)),
                <<"runtime.default_entry_point(locals())">>))

\* PythonVisitor::generate
py_generate(v0, module_node) ==
    py_epilogue(py_visit_body(py_prelude(v0), module_node.body))

\* The lines "__trif_exports__.set('<name>', <name>);" and
\* "__trif_default_export__ = <name>;" that follow a Let and a FunctionDef.
js_export_lines(node) ==
    (IF node.exported
     THEN << <<"__trif_exports__.set('">> \o node.name \o <<"', ">> \o node.name
             \o <<");">> >>
     ELSE <<>>)
    \o (IF node.is_default
        THEN << <<"__trif_default_export__ = ">> \o node.name \o <<";">> >>
        ELSE <<>>)

\* JavaScriptVisitor::visit_import_from
js_visit_import_from(v, node) ==
    emit_all(v,
      << <<"const __mod = await runtime.importModule('">> \o node.module \o <<"');">> >>
      \o (IF node.namespace_name # None
          THEN << <<"const ">> \o node.namespace_name[1] \o <<" = __mod;">> >>
          ELSE <<>>)
      \o (IF node.default_name # None
          THEN << <<"const ">> \o node.default_name[1]
                  \o <<" = runtime.extractDefault(__mod);">> >>
          ELSE <<>>)
      \o [k \in 1..Len(node.names) |->
            <<"const ">> \o node.names[k][2] \o <<" = runtime.extractExport(__mod, '">>
            \o node.names[k][1] \o <<"');">>])

\* JavaScriptVisitor::visit_export_names
js_visit_export_names(v, node) ==
    IF node.source # None
    THEN emit_all(v,
           << <<"const __mod = await runtime.importModule('">> \o node.source[1]
              \o <<"');">> >>
           \o [k \in 1..Len(node.names) |->
                 <<"__trif_exports__.set('">> \o node.names[k][2]
                 \o <<"', runtime.extractExport(__mod, '">> \o node.names[k][1]
                 \o <<"'));">>])
    ELSE emit_all(v, [k \in 1..Len(node.names) |->
                        <<"__trif_exports__.set('">> \o node.names[k][2] \o <<"', ">>
                        \o node.names[k][1] \o <<");">>])

RECURSIVE js_visit(_, _), js_visit_body(_, _)

js_visit_body(v, body) ==
    IF body = <<>> \/ v.exc # NoExc THEN v
    ELSE js_visit_body(js_visit(v, Head(body)), Tail(body))

\* JavaScriptVisitor::visit_function_def
js_visit_function_def(v, node) ==
    LET head == indent(emit(v, <<"function ">> \o node.name \o <<"(">>
                               \o join(node.params, <<",", " ">>) \o <<") {">>))
        body == IF node.body = <<>> THEN emit(head, <<"return null;">>)
                ELSE emit(js_visit_body(head, node.body), <<"return null;">>)
    IN  emit(emit_all(emit(dedent(body), <<"}">>), js_export_lines(node)), <<>>)

\* JavaScriptVisitor::visit and the visit_* members it dispatches to.
js_visit(v, node) ==
    IF v.exc # NoExc THEN v ELSE
    CASE node.kind = "Import" ->
            emit(v, <<"const ">>
                    \o (IF node.alias # None THEN node.alias[1] ELSE node.module)
                    \o <<" = await runtime.importModule('">> \o node.module \o <<"');">>)
      [] node.kind = "ImportFrom" -> js_visit_import_from(v, node)
      [] node.kind = "Let" ->
            emit_all(v,
              << (IF node.mutable_flag THEN <<"let">> ELSE <<"const">>) \o <<" ">>
                 \o node.name \o <<" = ">> \o render_expression(TRUE, node.value)
                 \o <<";">> >>
              \o js_export_lines(node))
      [] node.kind = "Assign" ->
            emit(v, render_expression(TRUE, node.target) \o <<" = ">>
                    \o render_expression(TRUE, node.value) \o <<";">>)
      [] node.kind = "FunctionDef" -> js_visit_function_def(v, node)
      [] node.kind = "Return" ->
            IF node.value = None THEN emit(v, <<"return null;">>)
            ELSE emit(v, <<"return ">> \o render_expression(TRUE, node.value[1])
                         \o <<";">>)
      [] node.kind = "ExportNames" -> js_visit_export_names(v, node)
      [] node.kind = "ExportDefault" ->
            emit(v, <<"__trif_default_export__ = ">>
                    \o render_expression(TRUE, node.value) \o <<";">>)
      [] node.kind = "If" ->
            LET body == dedent(js_visit_body(
                          indent(emit(v, <<"if (">> \o render_expression(TRUE, node.test)
                                         \o <<") {">>)), node.body))
                orelse == IF node.orelse # <<>>
                          THEN dedent(js_visit_body(indent(emit(body, <<"} else {">>)),
                                                    node.orelse))
                          ELSE body
            IN  emit(orelse, <<"}">>)
      [] node.kind = "While" ->
            emit(dedent(js_visit_body(
                   indent(emit(v, <<"while (">> \o render_expression(TRUE, node.test)
                                  \o <<") {">>)), node.body)),
                 <<"}">>)
      [] node.kind = "For" ->
            emit(dedent(js_visit_body(
                   indent(emit(v, <<"for (const ">> \o node.target \o <<" of ">>
                                  \o render_expression(TRUE, node.iterator) \o <<") {">>)),
                   node.body)),
                 <<"}">>)
      [] node.kind = "Spawn" ->
            emit(v, <<"runtime.spawn(">> \o render_expression(TRUE, node.call)
                    \o <<");">>)
      [] node.kind \in ExpressionKinds ->
            emit(v, render_expression(TRUE, node) \o <<";">>)
      [] OTHER -> [v EXCEPT !.exc = "Unsupported node in JS generator"]

\* JavaScriptVisitor::generate, the lines before the loop over the body.
js_prelude(v0) ==
    emit_all(v0,
      << <<"import { runtime } from '@trif/lang/runtime.js'">>,
         <<"const __trif_exports__ = new Map();">>,
         <<"let __trif_default_export__ = null;">>,
         <<>> >>)

\* JavaScriptVisitor::generate, the lines after the loop over the body.
js_epilogue(v) ==
    emit_all(v,
      << <<>>,
         <<"export default __trif_default_export__;">>,
         <<"export const exports = __trif_exports__;">> >>)

\* JavaScriptVisitor::generate
js_generate(v0, module_node) ==
    js_epilogue(js_visit_body(js_prelude(v0), module_node.body))

\* generate_cpp_stub (compiler.cpp): the fixed text, whatever the module.
generate_cpp_stub(module_node) ==
    << <<"#include <trif/runtime.hpp>">>,
       <<"#include <utility>">>,
       <<>>,
       <<"int main(int argc, char** argv) {">>,
       <<"    trif::runtime::Runtime runtime;">>,
       <<"    auto exports = runtime.create_module();">>,
       <<"    auto default_export = runtime.null_value();">>,
       <<"    runtime.bootstrap(argv[0]);">>,
       <<"    // TODO: Generated body">>,
       <<"    runtime.register_module(exports, default_export);">>,
       <<"    return 0;">>,
       <<"}">> >>

---------------------------------------------------------------------------
(* The state machine.  One compilation walks                                *)
(*   tokenize -> parse -> generate -> return      (compile_source's try)    *)
(*   or, from any of the three, -> catch          (compile_source's catch). *)
(* main wraps it: main -> compile_file -> ... -> write_output -> exit, with  *)
(* main_catch reached by every exception that leaves main's try block.      *)

\* A null ModulePtr.
NoModule == [kind |-> "<null>"]

\* main has not returned yet.
NoExit == -1

NoEdit == [edited |-> FALSE]

\* What a stream can hold after a write that failed part-way: a proper
\* prefix of the text (by whole lines).
Prefixes(text) == { SubSeq(text, 1, n) : n \in 0 .. Len(text) - 1 }

\* struct Arguments with its default member initialisers.
Arguments(input, output, target, aggressive_errors) ==
    [input |-> input, output |-> output, target |-> target,
     aggressive_errors |-> aggressive_errors]

\* struct CompileOptions as main and the callers of compile_source fill it.
CompileOptions(target, aggressive_errors) ==
    [target |-> target, aggressive_errors |-> aggressive_errors]

\* struct CompileResult
CompileResult(module_node, output_text) ==
    [module |-> module_node, output_text |-> output_text]

NoResult == CompileResult(NoModule, None)

NoIo == [input |-> "none", open |-> "none", write |-> "none"]

\* The state before an operation starts: everything except pc, caller,
\* argv, source, options, tokens, which the specifications' Init choose.
Idle ==
    /\ args = Arguments(None, None, "python", FALSE)
    /\ io = NoIo
    /\ index = 0 /\ line = 1 /\ column = 1
    /\ module = NoModule
    /\ visitor = VisitorState(<<>>, 0, 0)
    /\ result = NoResult
    /\ exc = NoExc
    /\ stdout = <<>> /\ stderr = <<>> /\ outfile = None
    /\ exit_code = NoExit
    /\ runs = <<>>
    /\ previous = NoEdit

\* parse_arguments: the loop over argv[1..argc-1]; i is 1-based into argv.
RECURSIVE parse_arguments(_, _, _)
parse_arguments(av, i, a) ==
    IF i > Len(av) THEN Ok(a, i)
    ELSE IF av[i] = "--target" /\ i + 1 <= Len(av)
    THEN parse_arguments(av, i + 2, [a EXCEPT !.target = av[i + 1]])
    ELSE IF av[i] = "--output" /\ i + 1 <= Len(av)
    THEN parse_arguments(av, i + 2, [a EXCEPT !.output = Some(av[i + 1])])
    ELSE IF av[i] = "--aggressive-errors"
    THEN parse_arguments(av, i + 1, [a EXCEPT !.aggressive_errors = TRUE])
    ELSE IF a.input = None
    THEN parse_arguments(av, i + 1, [a EXCEPT !.input = Some(av[i])])
    ELSE Err("Unrecognized argument: " \o av[i])

\* main, lines 55-62: parse the arguments, require an input, fill options.
ParseArguments ==
    /\ pc = "main"
    /\ LET r == parse_arguments(argv, 1, Arguments(None, None, "python", FALSE))
       IN  IF ~r.ok
           THEN /\ exc' = r.err
                /\ pc' = "main_catch"
                /\ UNCHANGED <<args, options>>
           ELSE IF r.val.input = None
           THEN /\ exc' = "No input file provided"
                /\ pc' = "main_catch"
                /\ args' = r.val
                /\ UNCHANGED options
           ELSE /\ args' = r.val
                /\ options' = CompileOptions(r.val.target, r.val.aggressive_errors)
                /\ pc' = "compile_file"
                /\ UNCHANGED exc
    /\ UNCHANGED <<caller, argv, io, source, lexVars, tokens, module, visitor,
                   result, stdout, stderr, outfile, exit_code, runs, previous>>


\* The contents the input file may have: a program that compiles, one the
\* lexer rejects, one the parser rejects.
InputFiles ==
    { <<"a", "=", "1">>,
      <<"/", "*">>,
      <<"=">> }

\* compile_file: open the path and read the whole file.  Whether the open
\* succeeds, and what the file holds, is the file system's answer.
CompileFile ==
    /\ pc = "compile_file"
    /\ \E f \in { None } \cup { Some(text) : text \in InputFiles } :
         IF f = None
         THEN /\ exc' = "Unable to open file: " \o args.input[1]
              /\ io' = [io EXCEPT !.input = "failed"]
              /\ pc' = "main_catch"
              /\ UNCHANGED source
         ELSE /\ source' = f[1]
              /\ io' = [io EXCEPT !.input = "ok"]
              /\ pc' = "tokenize"
              /\ UNCHANGED exc
    /\ UNCHANGED <<caller, argv, args, options, lexVars, tokens, module,
                   visitor, result, stdout, stderr, outfile, exit_code, runs,
                   previous>>

\* The lexer's locals as one record.
LexNow == LexState(index, line, column, tokens, exc)

\* Store a lexer step's outcome; an exception leaves tokenize for
\* compile_source's catch.
LexStep(st, next_pc) ==
    /\ index' = st.index
    /\ line' = st.line
    /\ column' = st.column
    /\ tokens' = st.tokens
    /\ exc' = st.exc
    /\ pc' = IF st.exc # NoExc THEN "catch" ELSE next_pc
    /\ UNCHANGED <<caller, mainVars, source, options, module, visitor, result,
                   runs, previous>>

\* tokenize, one iteration that starts at "/*".
TokenizeComment ==
    /\ pc = "tokenize"
    /\ index < Len(source)
    /\ AtBlockComment(source, index)
    /\ LexStep(tokenize_comment(source, LexNow), "tokenize")

\* tokenize, one iteration that tries the patterns.
TokenizeMatch ==
    /\ pc = "tokenize"
    /\ index < Len(source)
    /\ ~AtBlockComment(source, index)
    /\ LexStep(tokenize_match(source, LexNow), "tokenize")

\* tokenize, the end of the loop: push EOF and return the stream.
TokenizeEof ==
    /\ pc = "tokenize"
    /\ index >= Len(source)
    /\ LexStep(tokenize_eof(LexNow), "parse")

\* parser::parse with error recovery: on a syntax error, go on with an
\* empty module.
ParseLenient ==
    /\ pc = "parse"
    /\ module' = IF parse(tokens).ok THEN parse(tokens).val ELSE Module(<<>>)
    /\ pc' = "generate"
    /\ UNCHANGED <<caller, mainVars, source, options, lexVars, tokens, visitor,
                   result, exc, runs, previous>>

\* parser::parse(tokens), called by compile_source.
Parse ==
    /\ pc = "parse"
    /\ LET r == parse(tokens)
       IN  IF r.ok
           THEN /\ module' = r.val
                /\ pc' = "generate"
                /\ UNCHANGED exc
           ELSE /\ exc' = r.err
                /\ pc' = "catch"
                /\ UNCHANGED module
    /\ UNCHANGED <<caller, mainVars, source, options, lexVars, tokens, visitor,
                   result, runs, previous>>


\* compile_source, lines 40-50: the generator picked by the target.  For
\* python and javascript it is the visitor that PythonGenerator::generate /
\* JavaScriptGenerator::generate constructs, after it has run over the
\* module; the C++ stub uses no visitor, and an unknown target throws.
generate(target, module_node) ==
    IF target = "python" THEN py_generate(NewVisitor, module_node)
    ELSE IF target \in { "javascript", "js" } THEN js_generate(NewVisitor, module_node)
    ELSE IF target \in { "cpp", "c++" }
    THEN [stream |-> generate_cpp_stub(module_node), exc |-> NoExc]
    ELSE [stream |-> <<>>, exc |-> "Unknown target: " \o target]

\* The node (and the nodes below it) after the generator of the target
\* has run over it.  The visitors get the nodes through
\* const std::shared_ptr<T>&, which lets them write to the fields; the only
\* writes in a visit are those of visit_import's loop, and
\* generate_cpp_stub does not look at the module.
RECURSIVE generated_node(_, _)
generated_node(target, node) ==
    LET generated_body(body) ==
            [k \in DOMAIN body |-> generated_node(target, body[k])]
    IN  CASE node.kind = "Import" /\ target = "python" -> py_visit_import_node(node)
          [] node.kind \in { "Module", "FunctionDef", "While", "For" } ->
                [node EXCEPT !.body = generated_body(@)]
          [] node.kind = "If" ->
                [node EXCEPT !.body = generated_body(@), !.orelse = generated_body(@)]
          [] OTHER -> node

\* Store what the generator g left: the visitor's members, and the result
\* or the exception.
Generated(g) ==
    /\ visitor' = IF "temp_index" \in DOMAIN g THEN g ELSE visitor
    /\ IF g.exc = NoExc
       THEN /\ result' = CompileResult(module', Some(g.stream))
            /\ pc' = "return"
            /\ UNCHANGED exc
       ELSE /\ exc' = g.exc
            /\ pc' = "catch"
            /\ UNCHANGED result

\* compile_source, lines 39-51.
Generate ==
    /\ pc = "generate"
    /\ module' = generated_node(options.target, module)
    /\ Generated(generate(options.target, module))
    /\ UNCHANGED <<caller, mainVars, source, options, lexVars, tokens, runs,
                   previous>>

\* compile_source's catch block without the wrapping.
rethrown_unwrapped(opts, what) == what

\* compile_source's catch block: rethrow as is under aggressive_errors,
\* otherwise wrap the message.
rethrown(opts, what) ==
    IF opts.aggressive_errors THEN what ELSE "Compilation failed: " \o what

\* One finished call of compile_source as the session remembers it.
Run(src, opts, ok, value) ==
    [source |-> src, options |-> opts, ok |-> ok, value |-> value]

\* compile_source's catch block; the exception then leaves compile_source
\* (and compile_file) for the caller.
Catch ==
    /\ pc = "catch"
    /\ exc' = rethrown(options, exc)
    /\ IF caller = "session"
       THEN /\ runs' = Append(runs, Run(source, options, FALSE, exc'))
            /\ pc' = "idle"
       ELSE /\ pc' = "main_catch"
            /\ UNCHANGED runs
    /\ UNCHANGED <<caller, mainVars, source, options, lexVars, tokens, module,
                   visitor, result, previous>>

\* compile_source's "return result;", back in the caller.
ReturnResult ==
    /\ pc = "return"
    /\ IF caller = "session"
       THEN /\ runs' = Append(runs, Run(source, options, TRUE, result))
            /\ pc' = "idle"
       ELSE /\ pc' = "write_output"
            /\ UNCHANGED runs
    /\ UNCHANGED <<caller, mainVars, source, options, lexVars, tokens, module,
                   visitor, result, exc, previous>>

\* main, lines 64-66 and 71, with write_output.  Opening the output path can
\* fail, which write_output reports; a write can fail as well (a full disk,
\* a closed pipe), which nothing in write_output or main looks at.  Standard
\* output gets the text and std::endl; the file gets the text.
WriteOutput ==
    /\ pc = "write_output"
    /\ IF result.output_text = None
       THEN /\ pc' = "exit" /\ exit_code' = 0
            /\ UNCHANGED <<io, stdout, outfile, exc>>
       ELSE LET content == result.output_text[1]
                text == IF args.output = None THEN content \o << <<>> >>
                        ELSE content
            IN  \E opened \in BOOLEAN, written \in { text } \cup Prefixes(text) :
                  IF args.output # None /\ ~opened
                  THEN /\ written = text
                       /\ exc' = "Unable to write to output path: " \o args.output[1]
                       /\ io' = [io EXCEPT !.open = "failed"]
                       /\ pc' = "main_catch"
                       /\ UNCHANGED <<stdout, outfile, exit_code>>
                  ELSE /\ opened
                       /\ IF args.output = None
                          THEN stdout' = stdout \o written /\ UNCHANGED outfile
                          ELSE outfile' = Some(written) /\ UNCHANGED stdout
                       /\ io' = [io EXCEPT
                                   !.open = IF args.output = None THEN "none" ELSE "ok",
                                   !.write = IF written = text THEN "ok" ELSE "failed"]
                       /\ pc' = "exit" /\ exit_code' = 0
                       /\ UNCHANGED exc
    /\ UNCHANGED <<caller, argv, args, source, options, lexVars, tokens, module,
                   visitor, result, stderr, runs, previous>>

\* main's catch block: one line on standard error, return 1.
MainCatch ==
    /\ pc = "main_catch"
    /\ stderr' = Append(stderr, "trifc: " \o exc)
    /\ exit_code' = 1
    /\ pc' = "exit"
    /\ UNCHANGED <<caller, argv, args, io, source, options, lexVars, tokens,
                   module, visitor, result, exc, stdout, outfile, runs, previous>>


\* F applied to the value v (a local variable of the code).
With(v, F(_)) == F(v)

\* compile_source(source, options) as one function of its arguments:
\* Ok(CompileResult, 0), or Err(the message of the exception it throws).
compile_tokens(lexed, opts) ==
    IF lexed.exc # NoExc THEN Err(rethrown(opts, lexed.exc))
    ELSE With(parse(lexed.tokens),
           LAMBDA m :
             IF ~m.ok THEN Err(rethrown(opts, m.err))
             ELSE With(generate(opts.target, m.val),
                    LAMBDA g :
                      IF g.exc # NoExc THEN Err(rethrown(opts, g.exc))
                      ELSE Ok(CompileResult(generated_node(opts.target, m.val),
                                            Some(g.stream)), 0)))

compile_source(src, opts) == compile_tokens(tokenize(src), opts)

---------------------------------------------------------------------------
(* Spec: one run of the trifc command line.                                 *)

\* Longest command line explored (arguments after argv[0]).
MaxArgs == 4

\* The words a command line is made of: an input path, the three flags, and
\* values for --target (python is the default target).  Any word can also
\* stand where a path is expected.
ArgWords ==
    { "in.trif", "--target", "--output", "--aggressive-errors",
      "js", "cpp", "bogus" }

\* All sequences over S of length at most n.
RECURSIVE SeqsUpTo(_, _)
SeqsUpTo(S, n) ==
    IF n = 0 THEN { <<>> }
    ELSE LET shorter == SeqsUpTo(S, n - 1)
         IN  shorter \cup { Append(s, x) : s \in shorter, x \in S }

Init ==
    /\ pc = "main"
    /\ caller = "main"
    /\ argv \in SeqsUpTo(ArgWords, MaxArgs)
    /\ source = <<>>
    /\ options = CompileOptions("python", FALSE)
    /\ tokens = <<>>
    /\ Idle

Next ==
    \/ ParseArguments
    \/ CompileFile
    \/ TokenizeComment
    \/ TokenizeMatch
    \/ TokenizeEof
    \/ Parse
    \/ Generate
    \/ Catch
    \/ ReturnResult
    \/ WriteOutput
    \/ MainCatch

Spec == Init /\ [][Next]_vars


---------------------------------------------------------------------------
(* Properties of Spec.                                                      *)

\* parse_arguments on this run's command line.
ParsedArgs == parse_arguments(argv, 1, Arguments(None, None, "python", FALSE))

\* The run got as far as compile_source: the arguments were accepted, an
\* input was named and the file was read.
Compiling == ParsedArgs.ok /\ ParsedArgs.val.input # None /\ io.input = "ok"

\* The message of the exception that compile_source's try block throws for
\* this run's source and target, before the catch block sees it.
RawError == compile_source(source, CompileOptions(options.target, TRUE)).err

\* compile_source fails on this run's source and options.
CompileFails == Compiling /\ ~compile_source(source, options).ok

\* The message of a failure that main meets outside compile_source, NoExc
\* if there is none.
DriverError ==
    IF ~ParsedArgs.ok THEN ParsedArgs.err
    ELSE IF ParsedArgs.val.input = None THEN "No input file provided"
    ELSE IF io.input = "failed"
    THEN "Unable to open file: " \o ParsedArgs.val.input[1]
    ELSE IF io.open = "failed"
    THEN "Unable to write to output path: " \o ParsedArgs.val.output[1]
    ELSE NoExc

\* --aggressive-errors is in effect / is not given.
WithFlag == ParsedArgs.ok /\ ParsedArgs.val.aggressive_errors

WithoutFlag ==
    IF ParsedArgs.ok THEN ~ParsedArgs.val.aggressive_errors
    ELSE "--aggressive-errors" \notin Range(argv)

\* The run has ended in failure, with this message as its original one.
FailedWith(original) == pc = "exit" /\ exit_code = 1 /\ original # NoExc

OutputTouched == stdout # <<>> \/ outfile # None

\* C4: the output destination is written only after tokenize, parse and
\* code generation have all succeeded, and then with text taken from the
\* generated text; when one of them fails nothing reaches the output
\* destination and compile_source returns no result.
C4_NoPartialOutput ==
    /\ OutputTouched
       => /\ Compiling
          /\ compile_source(source, options).ok
          /\ result = compile_source(source, options).val
          /\ tokens = tokenize(source).tokens
          /\ module = parse(tokens).val
          /\ pc = "exit"
    /\ CompileFails => (~OutputTouched /\ result = NoResult)

\* A run with --output whose compilation failed in the parser has ended:
\* the file was never opened and standard output is empty.
C4_Witness ==
    /\ pc = "exit"
    /\ args.output # None
    /\ CompileFails /\ tokenize(source).exc = NoExc /\ ~parse(tokens).ok
    /\ ~OutputTouched

\* The run went through every step without a failure that main sees.
AllSucceeded ==
    /\ Compiling
    /\ compile_source(source, options).ok
    /\ io.open # "failed"
    /\ io.write = "ok"

\* C5, as stated: a run ends with exit code 0 exactly when argument
\* parsing, reading the input, compilation and opening and writing the
\* output all succeeded; every failure ends with exit code 1 and exactly one
\* line "trifc: <message>" on standard error.
C5_ExitCodeTellsSuccess ==
    pc = "exit"
    => /\ (exit_code = 0) <=> AllSucceeded
       /\ ~AllSucceeded => (exit_code = 1 /\ stderr = << "trifc: " \o exc >>)

\* A run whose write of the output failed has ended with exit code 0 and
\* nothing on standard error.
C5_UnreportedWriteFailure ==
    /\ pc = "exit"
    /\ io.write = "failed"
    /\ exit_code = 0
    /\ stderr = <<>>


---------------------------------------------------------------------------
(* SpecSession: one process that calls Compiler::compile_source several     *)
(* times, one call after the other.                                         *)

\* Most calls of compile_source in one process.
MaxRuns == 2

\* The sources the process compiles:
\*   import a from b
\*   import a from b;export{c}from d
\*   /**/a
\*   =
SessionSources ==
    { <<"i","m","p","o","r","t"," ","a"," ","f","r","o","m"," ","b">>,
      <<"i","m","p","o","r","t"," ","a"," ","f","r","o","m"," ","b",";",
        "e","x","p","o","r","t","{","c","}","f","r","o","m"," ","d">>,
      <<"/","*","*","/","a">>,
      <<"=">> }

SessionTargets == { "python", "js" }

\* A caller enters compile_source(source, options): the locals of the call
\* start afresh; what an earlier call left in memory is still there.
StartCompile ==
    /\ pc = "idle"
    /\ Len(runs) < MaxRuns
    /\ \E src \in SessionSources, target \in SessionTargets, aggressive \in BOOLEAN :
         /\ source' = src
         /\ options' = CompileOptions(target, aggressive)
    /\ index' = 0 /\ line' = 1 /\ column' = 1
    /\ tokens' = <<>>
    /\ module' = NoModule
    /\ result' = NoResult
    /\ exc' = NoExc
    /\ pc' = "tokenize"
    /\ UNCHANGED <<caller, mainVars, visitor, runs, previous>>

InitSession ==
    /\ pc = "idle"
    /\ caller = "session"
    /\ argv = <<>>
    /\ source = <<>>
    /\ options = CompileOptions("python", FALSE)
    /\ tokens = <<>>
    /\ Idle

NextSession ==
    \/ StartCompile
    \/ TokenizeComment
    \/ TokenizeMatch
    \/ TokenizeEof
    \/ Parse
    \/ Generate
    \/ Catch
    \/ ReturnResult

SpecSession == InitSession /\ [][NextSession]_vars

\* The lines of a generated Python text that define a temporary name:
\* "__trif_<prefix>_<n> = runtime.import_module('...".
TempDefinitions(text) ==
    SelectSeq(text, LAMBDA l : Len(l) > 0 /\ l[1] = "__trif_")

\* Line l defines the temporary name with index n.
DefinesTemp(l, n) ==
    /\ Len(l) >= 4 + Len(DigitsOf(n))
    /\ SubSeq(l, 4, 4 + Len(DigitsOf(n)))
         = DigitsOf(n) \o <<" = runtime.import_module('">>

\* C6: in one process, two compilations of the same source with the same
\* options end the same way, with the same text or the same message,
\* whatever ran before them; with the same source and target (the error
\* flag apart) they succeed or fail alike, with the same text; and the
\* temporary names of every generated Python text count from 0.
C6_Deterministic ==
    \A i \in DOMAIN runs :
      /\ \A j \in DOMAIN runs :
           (runs[i].source = runs[j].source
            /\ runs[i].options.target = runs[j].options.target)
           => /\ runs[i].ok = runs[j].ok
              /\ (runs[i].ok \/ runs[i].options = runs[j].options)
                 => runs[i].value = runs[j].value
      /\ (runs[i].ok /\ runs[i].options.target = "python")
         => \A k \in DOMAIN TempDefinitions(runs[i].value.output_text[1]) :
              DefinesTemp(TempDefinitions(runs[i].value.output_text[1])[k], k - 1)

\* The same source was compiled to Python twice in a row, and its text
\* defines two temporary names.
C6_Witness ==
    /\ Len(runs) = 2
    /\ runs[1].source = runs[2].source
    /\ runs[1].options = runs[2].options
    /\ runs[2].ok
    /\ runs[2].options.target = "python"
    /\ Len(TempDefinitions(runs[2].value.output_text[1])) = 2


---------------------------------------------------------------------------
(* SpecLexer: tokenize alone, on every source over a small alphabet and on  *)
(* three longer sources that between them use every pattern and keyword.    *)

\* Longest source over LexAlphabet.
MaxSourceLen == 4

\* Letters (of a name and of the keywords if, in), a digit, a quote, the
\* characters of comments and of an operator, the two kinds of space, and a
\* character no pattern matches.
LexAlphabet == { "i", "f", "1", "\"", "/", "*", "\n", " ", "=", "@" }

\* The keywords (and a name that starts like one); names, numbers, strings,
\* a line comment and the punctuation; the operators and block comments.
LexSamples ==
    { <<"l","e","t"," ","f","n"," ","f","u","n","c","t","i","o","n"," ","r",
      "e","t","u","r","n"," ","i","f"," ","e","l","s","e"," ","w","h","i",
      "l","e"," ","f","o","r"," ","i","n"," ","t","r","u","e"," ","f","a",
      "l","s","e"," ","n","u","l","l"," ","i","m","p","o","r","t"," ","a",
      "s"," ","f","r","o","m"," ","c","o","n","s","t"," ","e","x","p","o",
      "r","t"," ","d","e","f","a","u","l","t"," ","s","p","a","w","n"," ",
      "l","e","t","s">>,
      <<"x","_","1"," ","2",".","5"," ","7"," ","'","a","\\","n","'"," ",
      "\"","b","\""," ","/","/"," ","c","\n","("," ",")"," ","{"," ","}",
      " ","["," ","]"," ",","," ",":"," ","."," ",";">>,
      <<"=","="," ","!","="," ","<","="," ",">","="," ","=",">"," ","&","&",
      " ","|","|"," ","+"," ","-"," ","*"," ","/"," ","%"," ","="," ","<",
      " ",">"," ","!"," ","/","*"," ","c","\n"," ","*","/"," ","/","*",
      "/"," ","z">> }

InitLexer ==
    /\ pc = "tokenize"
    /\ caller = "lexer"
    /\ argv = <<>>
    /\ source \in SeqsUpTo(LexAlphabet, MaxSourceLen) \cup LexSamples
    /\ options = CompileOptions("python", FALSE)
    /\ tokens = <<>>
    /\ Idle

NextLexer ==
    \/ TokenizeComment
    \/ TokenizeMatch
    \/ TokenizeEof

SpecLexer == InitLexer /\ [][NextLexer]_vars

\* The token kinds of the specification: the sixteen structural kinds and
\* the nineteen keyword kinds.
TokenKinds ==
    { "NUMBER", "STRING", "NAME", "OP", "NEWLINE", "LPAREN", "RPAREN", "LBRACE",
      "RBRACE", "LBRACKET", "RBRACKET", "COMMA", "COLON", "DOT", "SEMICOLON",
      "EOF",
      "LET", "CONST", "FN", "FUNCTION", "RETURN", "IF", "ELSE", "WHILE", "FOR",
      "IN", "TRUE", "FALSE", "NULL", "IMPORT", "AS", "FROM", "EXPORT", "DEFAULT",
      "SPAWN" }

\* C10: the token list that tokenize returns ends with an EOF token and
\* holds no other EOF token; no token has kind SKIP or COMMENT, and every
\* kind is one of TokenKinds (also while the list is being built).
C10_OneEofAtEnd ==
    /\ \A k \in DOMAIN tokens :
         /\ tokens[k].type \in TokenKinds
         /\ tokens[k].type \notin { "SKIP", "COMMENT" }
         /\ tokens[k].type = "EOF" => (k = Len(tokens) /\ pc # "tokenize")
    /\ pc = "parse" => (tokens # <<>> /\ tokens[Len(tokens)].type = "EOF")

\* tokenize has returned a list for a source with a comment and blanks in
\* it, and the list uses every kind but those of the keywords.
C10_Witness ==
    /\ pc = "parse"
    /\ " " \in Range(source)
    /\ Find2(source, "/", "/", 0) >= 0
    /\ { tokens[k].type : k \in DOMAIN tokens }
         = { "NAME", "NUMBER", "STRING", "NEWLINE", "LPAREN", "RPAREN", "LBRACE",
             "RBRACE", "LBRACKET", "RBRACKET", "COMMA", "COLON", "DOT",
             "SEMICOLON", "EOF" }


---------------------------------------------------------------------------
(* The parser alone: a Parser constructed on the tokens of a source, and    *)
(* parse() called on it.                                                    *)

\* Words separated by single blanks.
RECURSIVE Spaced(_)
Spaced(words) ==
    IF words = <<>> THEN <<>>
    ELSE IF Len(words) = 1 THEN words[1]
    ELSE words[1] \o <<" ">> \o Spaced(Tail(words))

\* Parser parser(tokens), tokens = lexer::tokenize(source), for a source of
\* the given set.
ParserOn(sources) ==
    /\ pc = "parse"
    /\ caller = "parser"
    /\ argv = <<>>
    /\ source \in sources
    /\ options = CompileOptions("python", FALSE)
    /\ tokens = tokenize(source).tokens
    /\ Idle

---------------------------------------------------------------------------
(* SpecExpression: sources that are one expression statement without        *)
(* parentheses: operands a, b, c, .. joined by binary operators, one of    *)
(* the operands under a chain of prefix operators.                          *)

\* Most binary operators in one expression.
MaxOps == 2

\* The levels as the specification lists them, lowest first.
StatedLevels ==
    << { <<"|","|">> },
       { <<"&","&">> },
       { <<"=","=">>, <<"!","=">> },
       { <<"<">>, <<">">>, <<"<","=">>, <<">","=">> },
       { <<"+">>, <<"-">> },
       { <<"*">>, <<"/">>, <<"%">> } >>

StatedLevel(op) == CHOOSE lv \in DOMAIN StatedLevels : op \in StatedLevels[lv]

BinaryOperators == UNION Range(StatedLevels)

PrefixChains ==
    { <<"!">>, <<"-">>, <<"!", "!">>, <<"-", "-">>, <<"!", "-">>, <<"-", "!">> }

OperandNames == << "a", "b", "c", "d", "e", "f", "g", "h" >>

\* The words of: operand 1, ops[1], operand 2, .. with the chain of prefix
\* operators before operand number `at` (none if at = 0).
RECURSIVE ExpressionWords(_, _, _, _)
ExpressionWords(ops, at, chain, k) ==
    (IF k = at THEN [j \in DOMAIN chain |-> <<chain[j]>>] ELSE <<>>)
    \o << <<OperandNames[k]>> >>
    \o (IF k > Len(ops) THEN <<>>
        ELSE <<ops[k]>> \o ExpressionWords(ops, at, chain, k + 1))

\* The three expressions the specification gives.
ExpressionSamples ==
    { <<"1"," ","+"," ","2"," ","*"," ","3">>,
      <<"a"," ","|","|"," ","b"," ","&","&"," ","c">>,
      <<"!","!","x">> }

ExpressionSources ==
    ExpressionSamples
    \cup UNION { { Spaced(ExpressionWords(ops, 0, <<>>, 1)) }
                 \cup { Spaced(ExpressionWords(ops, at, chain, 1)) :
                          at \in 1 .. Len(ops) + 1, chain \in PrefixChains } :
                 ops \in SeqsUpTo(BinaryOperators, MaxOps) }

InitExpression == ParserOn(ExpressionSources)

SpecExpression == InitExpression /\ [][Parse]_vars

\* The expression and all the expressions inside it.
RECURSIVE Subexpressions(_)
Subexpressions(e) ==
    {e} \cup
    CASE e.kind = "BinaryOp" -> Subexpressions(e.left) \cup Subexpressions(e.right)
      [] e.kind = "UnaryOp"  -> Subexpressions(e.operand)
      [] OTHER -> {}

\* The names and operators of an expression in the order of the text.
RECURSIVE InOrder(_)
InOrder(e) ==
    CASE e.kind = "BinaryOp" -> InOrder(e.left) \o <<e.op>> \o InOrder(e.right)
      [] e.kind = "UnaryOp"  -> <<e.op>> \o InOrder(e.operand)
      [] e.kind = "Name"     -> <<e.id>>
      [] OTHER -> << <<"?">> >>

\* The values of the tokens before EOF.
Words(toks) == [k \in 1 .. Len(toks) - 1 |-> toks[k].value]

\* An operand of a binary operator is never a binary operator of a lower
\* level, on the right not of the same level either; the operand of a
\* prefix operator is never a binary operator.
WellNested(e) ==
    \A sub \in Subexpressions(e) :
      /\ sub.kind = "BinaryOp" =>
           /\ sub.left.kind = "BinaryOp"
                => StatedLevel(sub.left.op) >= StatedLevel(sub.op)
           /\ sub.right.kind = "BinaryOp"
                => StatedLevel(sub.right.op) > StatedLevel(sub.op)
      /\ sub.kind = "UnaryOp" => sub.operand.kind # "BinaryOp"

\* C7: every expression without parentheses is accepted as one statement,
\* the tree of all its tokens in their order, in which operators of a higher
\* level bind tighter, operators of one level nest to the left and prefix
\* operators nest to the right, binding tighter than every binary operator;
\* 1 + 2 * 3 is 1 + (2 * 3), a || b && c is a || (b && c), !!x is !(!x).
C7_Precedence ==
    pc # "parse" =>
      /\ pc = "generate"
      /\ Len(module.body) = 1
      /\ WellNested(module.body[1])
      /\ source \notin ExpressionSamples => InOrder(module.body[1]) = Words(tokens)
      /\ source = <<"1"," ","+"," ","2"," ","*"," ","3">> =>
           module.body[1]
             = BinaryOp(Number([num |-> 1, scale |-> 0]), <<"+">>,
                        BinaryOp(Number([num |-> 2, scale |-> 0]), <<"*">>,
                                 Number([num |-> 3, scale |-> 0])))
      /\ source = <<"a"," ","|","|"," ","b"," ","&","&"," ","c">> =>
           module.body[1]
             = BinaryOp(Name(<<"a">>), <<"|","|">>,
                        BinaryOp(Name(<<"b">>), <<"&","&">>, Name(<<"c">>)))
      /\ source = <<"!","!","x">> =>
           module.body[1] = UnaryOp(<<"!">>, UnaryOp(<<"!">>, Name(<<"x">>)))

\* a * - ! b + c has been parsed: a product whose right operand is a prefix
\* chain, under a sum of a lower level.
C7_Witness ==
    /\ pc = "generate"
    /\ module.body
         = << BinaryOp(BinaryOp(Name(<<"a">>), <<"*">>,
                                UnaryOp(<<"-">>, UnaryOp(<<"!">>, Name(<<"b">>)))),
                       <<"+">>, Name(<<"c">>)) >>


---------------------------------------------------------------------------
(* SpecSpawn: sources with one spawn statement, at the top level or in the  *)
(* body of a function, an if, an else, a while or a for, followed by every  *)
(* short sequence of words that expressions are made of.                    *)

\* Most words after the keyword spawn.
MaxSpawnWords == 4

ExpressionAlphabet == { <<"f">>, <<"(">>, <<")">>, <<".">>, <<"-">>, <<"1">> }

\* What stands before and after the statement:
\*   (nothing), fn g(){ .. }, if a { .. }, if a { } else { .. },
\*   while a { .. }, for x in y { .. }, fn g(){ while a { .. } }
StatementContexts ==
    { << <<>>,
         <<>> >>,
      << <<"f","n"," ","g","(",")","{"," ">>,
         <<" ","}">> >>,
      << <<"i","f"," ","a"," ","{"," ">>,
         <<" ","}">> >>,
      << <<"i","f"," ","a"," ","{"," ","}"," ","e","l","s","e"," ","{"," ">>,
         <<" ","}">> >>,
      << <<"w","h","i","l","e"," ","a"," ","{"," ">>,
         <<" ","}">> >>,
      << <<"f","o","r"," ","x"," ","i","n"," ","y"," ","{"," ">>,
         <<" ","}">> >>,
      << <<"f","n"," ","g","(",")","{"," ","w","h","i","l","e"," ","a"," ","{"," ">>,
         <<" ","}"," ","}">> >> }

SpawnSources ==
    { ctx[1] \o <<"s","p","a","w","n"," ">> \o Spaced(words) \o ctx[2] :
        ctx \in StatementContexts,
        words \in SeqsUpTo(ExpressionAlphabet, MaxSpawnWords) }

InitSpawn == ParserOn(SpawnSources)

SpecSpawn == InitSpawn /\ [][Parse]_vars

\* The statements of a body and of the bodies inside them.
RECURSIVE Statements(_)
Statements(body) ==
    UNION { {body[k]} \cup
            CASE body[k].kind \in { "FunctionDef", "While", "For" } ->
                   Statements(body[k].body)
              [] body[k].kind = "If" ->
                   Statements(body[k].body) \cup Statements(body[k].orelse)
              [] OTHER -> {} :
            k \in DOMAIN body }

\* C1: in the AST of an accepted stream every Spawn node, at the top level
\* or in a body, holds a Call; and a stream in which the expression that
\* follows SPAWN is not a Call is rejected with "spawn expects a function
\* call".
C1_SpawnHoldsCall ==
    /\ pc = "generate" =>
         \A node \in Statements(module.body) :
           node.kind = "Spawn" => node.call.kind = "Call"
    /\ pc # "parse" =>
         \A p \in DOMAIN tokens :
           (/\ tokens[p].type = "SPAWN"
            /\ parse_expression(tokens, p + 1).ok
            /\ parse_expression(tokens, p + 1).val.kind # "Call")
           => /\ pc = "catch"
              /\ exc = "spawn expects a function call"

\* Accepted: a while loop in a function whose body spawns a call with an
\* argument.
C1_Witness ==
    /\ pc = "generate"
    /\ \E fn \in Statements(module.body), loop \in Statements(module.body),
          node \in Statements(module.body) :
         /\ fn.kind = "FunctionDef" /\ loop \in Range(fn.body)
         /\ loop.kind = "While" /\ node \in Range(loop.body)
         /\ node.kind = "Spawn"
         /\ node.call.args = << Name(<<"f">>) >>


---------------------------------------------------------------------------
(* SpecAssign: sources with one statement made of every short sequence of   *)
(* expression words, then "=", then a value, in each of the contexts.       *)

\* Most words before the "=".
MaxTargetWords == 3

\* What follows the "=": 1, f, f = 1.
AssignedValues == { << <<"1">> >>, << <<"f">> >>, << <<"f">>, <<"=">>, <<"1">> >> }

AssignSources ==
    { ctx[1] \o Spaced(words \o << <<"=">> >> \o value) \o ctx[2] :
        ctx \in StatementContexts,
        words \in SeqsUpTo(ExpressionAlphabet, MaxTargetWords),
        value \in AssignedValues }

InitAssign == ParserOn(AssignSources)

SpecAssign == InitAssign /\ [][Parse]_vars

\* C2: in the AST of an accepted stream every Assign node, at the top level
\* or in a body, has a Name or an Attribute as its target; and a stream in
\* which an expression of another kind is followed by the operator "=" is
\* rejected, no AST is produced.
C2_AssignTargets ==
    /\ pc = "generate" =>
         \A node \in Statements(module.body) :
           node.kind = "Assign" => node.target.kind \in { "Name", "Attribute" }
    /\ pc # "parse" =>
         \A p \in DOMAIN tokens :
           (/\ parse_expression(tokens, p).ok
            /\ parse_expression(tokens, p).val.kind \notin { "Name", "Attribute" }
            /\ IsOp(tokens, parse_expression(tokens, p).pos, <<"=">>))
           => /\ pc = "catch"
              /\ module = NoModule

\* Accepted: the else block of an if assigns to an attribute.
C2_Witness ==
    /\ pc = "generate"
    /\ \E test \in Statements(module.body), node \in Statements(module.body) :
         /\ test.kind = "If" /\ node \in Range(test.orelse)
         /\ node.kind = "Assign"
         /\ node.target.kind = "Attribute"


---------------------------------------------------------------------------
(* SpecEdit: a source is parsed; if it is accepted, one separator of it is  *)
(* replaced by the other, or a line break is put before one of its tokens,  *)
(* and the edited source is tokenized and parsed again.                     *)

\* Most edits of one source, one after the other.
MaxEdits == 2

\* The sources before the first edit:
\*   fn f(){ return\n}
\*   return\n1
\*   if a { b }else{ c }\nd
\*   f(a, b)\nx = [1, 2]
\*   y = {1: 2, 3: 4};z
\*   fn f(a, b) { return a; }
\*   import { a, b } from "m"\nexport { a, b }
\*   while a { b; c\n}
\*   for x in y { spawn f() }
\*   let x = 1; const y = 2\nexport default fn(){ }
EditSources ==
    { <<"f","n"," ","f","(",")","{"," ","r","e","t","u","r","n","\n",
        "}">>,
      <<"r","e","t","u","r","n","\n","1">>,
      <<"i","f"," ","a"," ","{"," ","b"," ","}","e","l","s","e","{"," ",
        "c"," ","}","\n","d">>,
      <<"f","(","a",","," ","b",")","\n","x"," ","="," ","[","1",","," ",
        "2","]">>,
      <<"y"," ","="," ","{","1",":"," ","2",","," ","3",":"," ","4","}",
        ";","z">>,
      <<"f","n"," ","f","(","a",","," ","b",")"," ","{"," ","r","e","t",
        "u","r","n"," ","a",";"," ","}">>,
      <<"i","m","p","o","r","t"," ","{"," ","a",","," ","b"," ","}"," ",
        "f","r","o","m"," ","\"","m","\"","\n","e","x","p","o","r","t"," ",
        "{"," ","a",","," ","b"," ","}">>,
      <<"w","h","i","l","e"," ","a"," ","{"," ","b",";"," ","c","\n",
        "}">>,
      <<"f","o","r"," ","x"," ","i","n"," ","y"," ","{"," ","s","p","a",
        "w","n"," ","f","(",")"," ","}">>,
      <<"l","e","t"," ","x"," ","="," ","1",";"," ","c","o","n","s","t",
        " ","y"," ","="," ","2","\n","e","x","p","o","r","t"," ","d","e",
        "f","a","u","l","t"," ","f","n","(",")","{"," ","}">> }

\* 0-based offset of the first character of line ln of src, from offset
\* `from` on line 1.
RECURSIVE LineStart(_, _, _)
LineStart(src, ln, from) ==
    IF ln = 1 THEN from
    ELSE LineStart(src, IF src[from + 1] = "\n" THEN ln - 1 ELSE ln, from + 1)

\* Where a token starts in the source it was read from.
TokenOffset(src, token) == LineStart(src, token.line, 0) + token.column - 1

EditCount == IF previous.edited THEN previous.count ELSE 0

\* The edited text is read again: lexer::tokenize, then a new Parser.
Edited(kind, p, text) ==
    /\ source' = text
    /\ tokens' = tokenize(text).tokens
    /\ previous' = [edited |-> TRUE, kind |-> kind, at |-> p, tokens |-> tokens,
                    module |-> module, count |-> EditCount + 1]
    /\ module' = NoModule
    /\ pc' = "parse"
    /\ UNCHANGED <<caller, mainVars, options, lexVars, visitor, result, exc, runs>>

\* The NEWLINE or SEMICOLON token number p becomes the other separator.
ReplaceSeparator ==
    /\ pc = "generate"
    /\ caller = "parser"
    /\ EditCount < MaxEdits
    /\ \E p \in DOMAIN tokens :
         /\ tokens[p].type \in { "NEWLINE", "SEMICOLON" }
         /\ Edited("replace", p,
                   Take(source, TokenOffset(source, tokens[p]))
                   \o << IF tokens[p].type = "NEWLINE" THEN ";" ELSE "\n" >>
                   \o Drop(source, TokenOffset(source, tokens[p]) + 1))

\* A line break is put right before token number p.
InsertNewline ==
    /\ pc = "generate"
    /\ caller = "parser"
    /\ EditCount < MaxEdits
    /\ \E p \in DOMAIN tokens :
         Edited("insert", p,
                Take(source, TokenOffset(source, tokens[p]))
                \o << "\n" >>
                \o Drop(source, TokenOffset(source, tokens[p])))

InitEdit == ParserOn(EditSources)

NextEdit ==
    \/ Parse
    \/ ReplaceSeparator
    \/ InsertNewline

SpecEdit == InitEdit /\ [][NextEdit]_vars


\* The first token of the type at or after cursor i.
FirstOf(toks, i, type) ==
    CHOOSE k \in i .. Len(toks) :
      /\ toks[k].type = type
      /\ \A j \in i .. k - 1 : toks[j].type # type

\* The LBRACE tokens that open the blocks of the statement at cursor i of
\* an accepted stream.
BlockStarts(toks, i) ==
    CASE toks[i].type = "IF" ->
           { parse_expression(toks, i + 1).pos }
           \cup (IF current(toks, parse_block(toks,
                                   parse_expression(toks, i + 1).pos).pos).type = "ELSE"
                 THEN { parse_block(toks, parse_expression(toks, i + 1).pos).pos + 1 }
                 ELSE {})
      [] toks[i].type = "WHILE" -> { parse_expression(toks, i + 1).pos }
      [] toks[i].type = "FOR" -> { parse_expression(toks, i + 3).pos }
      [] \/ toks[i].type \in { "FN", "FUNCTION" }
         \/ /\ toks[i].type = "EXPORT"
            /\ \/ toks[i + 1].type \in { "FN", "FUNCTION" }
               \/ /\ toks[i + 1].type = "DEFAULT"
                  /\ toks[i + 2].type \in { "FN", "FUNCTION" } ->
           { FirstOf(toks, i, "LBRACE") }
      [] OTHER -> {}

\* The cursors at which parse() or parse_block, at cursor i of an accepted
\* stream, stand between two statements, before the first or after the
\* last statement of their body, and those inside the statements.
RECURSIVE Boundaries(_, _)
Boundaries(toks, i) ==
    {i} \cup
    IF toks[i].type \in { "EOF", "RBRACE" } THEN {}
    ELSE IF toks[i].type \in { "NEWLINE", "SEMICOLON" } THEN Boundaries(toks, i + 1)
    ELSE UNION { Boundaries(toks, b + 1) : b \in BlockStarts(toks, i) }
         \cup Boundaries(toks, statement_body(toks, i).pos)

\* The cursors at which a statement of the stream starts.
StatementStarts(toks) ==
    { i \in Boundaries(toks, 1) :
        toks[i].type \notin { "EOF", "RBRACE", "NEWLINE", "SEMICOLON" } }

\* Token p comes right after the last token of a statement.
Terminates(toks, p) ==
    \E i \in StatementStarts(toks) : statement_body(toks, i).pos = p

\* Tokens p - 1 and p are both tokens of one statement.
InsideStatement(toks, p) ==
    \E i \in StatementStarts(toks) : i < p /\ p < statement_body(toks, i).pos

\* The edited stream was accepted with the AST of the stream before it.
SameAst == pc = "generate" /\ module = previous.module

\* C8: when the NEWLINE or SEMICOLON that terminates a statement of an
\* accepted stream is replaced by the other separator, the stream is
\* accepted again, with the same AST.
C8_SeparatorsInterchangeable ==
    (/\ pc # "parse"
     /\ previous.edited
     /\ previous.kind = "replace"
     /\ Terminates(previous.tokens, previous.at))
    => SameAst

\* The NEWLINE after a valueless return was replaced by a SEMICOLON, and
\* the stream is rejected at the SEMICOLON.
C8_ReturnSemicolonRejected ==
    /\ pc = "catch"
    /\ previous.edited
    /\ previous.kind = "replace"
    /\ previous.at > 1
    /\ previous.tokens[previous.at - 1].type = "RETURN"
    /\ previous.tokens[previous.at].type = "NEWLINE"
    /\ Return(None) \in Statements(previous.module.body)
    /\ exc = "Unexpected token SEMICOLON at line 1"

---------------------------------------------------------------------------
(* SpecString: a source that is one string literal is compiled, and the     *)
(* literal the generator wrote for it is read by the lexer again.           *)

\* Longest payload between the quotes.
MaxPayloadLen == 3

\* A letter (also the n of the escape \n), the backslash, the two quotes
\* and the three characters repr_string writes as escapes.
PayloadAlphabet == { "n", "\\", "\"", "'", "\n", "\t", "\r" }

StringSources ==
    { <<q>> \o payload \o <<q>> :
        q \in { "\"", "'" }, payload \in SeqsUpTo(PayloadAlphabet, MaxPayloadLen) }

InitString ==
    /\ pc = "tokenize"
    /\ caller = "string"
    /\ argv = <<>>
    /\ source \in StringSources
    /\ options \in { CompileOptions(t, FALSE) : t \in { "python", "javascript" } }
    /\ tokens = <<>>
    /\ Idle

\* The lines of the output that are a statement starting with a string
\* literal (no line of the fixed text around the body starts with a quote).
LiteralLines(text) == SelectSeq(text, LAMBDA l : l # <<>> /\ l[1] = "\"")

\* The literal of such a line: visit writes an expression statement as the
\* expression, followed by ";" in the JavaScript target.
LiteralOf(l) == IF options.target = "python" THEN l ELSE Take(l, Len(l) - 1)

\* lexer::tokenize is started on the literal repr_string wrote.
Reread ==
    /\ pc = "return"
    /\ caller = "string"
    /\ ~previous.edited
    /\ LiteralLines(result.output_text[1]) # <<>>
    /\ source' = LiteralOf(LiteralLines(result.output_text[1])[1])
    /\ previous' = [edited |-> TRUE, source |-> source, tokens |-> tokens]
    /\ index' = 0 /\ line' = 1 /\ column' = 1
    /\ tokens' = <<>>
    /\ module' = NoModule
    /\ result' = NoResult
    /\ pc' = "tokenize"
    /\ UNCHANGED <<caller, mainVars, options, visitor, exc, runs>>

NextString ==
    \/ TokenizeMatch
    \/ TokenizeEof
    \/ Parse
    \/ Generate
    \/ Reread

SpecString == InitString /\ [][NextString]_vars

\* The text between the quotes of a literal.
Payload(literal) == SubSeq(literal, 2, Len(literal) - 1)

\* The literal was read to its end a second time.
RereadDone == previous.edited /\ pc \in { "parse", "generate", "return", "catch" }

\* The re-emitted literal is one STRING token with the value of the token
\* the source literal gave.
SameValue ==
    /\ pc # "catch"
    /\ Len(tokens) = 2
    /\ tokens[1].type = "STRING"
    /\ tokens[2].type = "EOF"
    /\ tokens[1].value = previous.tokens[1].value

\* C11 as stated: the literal repr_string writes for a decoded value v is
\* read back as one STRING token of value v, and a source literal whose
\* payload holds no backslash and no quote character is re-emitted with the
\* payload it had.
C11_PayloadKept ==
    RereadDone =>
      /\ SameValue
      /\ (Range(Payload(previous.source)) \cap { "\\", "\"", "'" } = {}
            => Payload(source) = Payload(previous.source))

\* C11, amended: the literal repr_string writes for a decoded value v is
\* read back as one STRING token of value v, and a source literal whose
\* payload holds no backslash, no quote character and no line feed, tab or
\* carriage return is re-emitted with the payload it had.
C11_RoundTrip ==
    RereadDone =>
      /\ SameValue
      /\ (Range(Payload(previous.source))
              \cap { "\\", "\"", "'", "\n", "\t", "\r" } = {}
            => Payload(source) = Payload(previous.source))

\* A value with a double quote and a backslash, both of which repr_string
\* has to escape, has made the round trip.
C11_Witness ==
    /\ RereadDone
    /\ { "\"", "\\" } \subseteq Range(previous.tokens[1].value)
    /\ SameValue


---------------------------------------------------------------------------
(* SpecKeyword: tokenize on sources made of one keyword, as written, with   *)
(* its first letter or all letters in upper case, between a prefix and a    *)
(* suffix of name characters and blanks.                                    *)

\* Longest prefix and longest suffix around the keyword.
MaxAffixLen == 1

AffixAlphabet == { "y", "_", "1", " " }

KeywordWords ==
    { <<"l","e","t">>,
      <<"c","o","n","s","t">>,
      <<"f","n">>,
      <<"f","u","n","c","t","i","o","n">>,
      <<"r","e","t","u","r","n">>,
      <<"i","f">>,
      <<"e","l","s","e">>,
      <<"w","h","i","l","e">>,
      <<"f","o","r">>,
      <<"i","n">>,
      <<"t","r","u","e">>,
      <<"f","a","l","s","e">>,
      <<"n","u","l","l">>,
      <<"i","m","p","o","r","t">>,
      <<"a","s">>,
      <<"f","r","o","m">>,
      <<"e","x","p","o","r","t">>,
      <<"d","e","f","a","u","l","t">>,
      <<"s","p","a","w","n">> }

\* w with its first letter in upper case.
Capitalised(w) == << ToUpper(w[1]) >> \o Tail(w)

KeywordSamples == { <<"L","e","t"," ","i","f","f","y"," ","l","e","t"," ","i","f">> }

KeywordSources ==
    { prefix \o word \o suffix :
        prefix \in SeqsUpTo(AffixAlphabet, MaxAffixLen),
        word \in KeywordWords \cup { Capitalised(w) : w \in KeywordWords }
                   \cup { uppercase(w) : w \in KeywordWords },
        suffix \in SeqsUpTo(AffixAlphabet, MaxAffixLen) }
    \cup KeywordSamples

InitKeyword ==
    /\ pc = "tokenize"
    /\ caller = "lexer"
    /\ argv = <<>>
    /\ source \in KeywordSources
    /\ options = CompileOptions("python", FALSE)
    /\ tokens = <<>>
    /\ Idle

NextKeyword ==
    \/ TokenizeMatch
    \/ TokenizeEof

SpecKeyword == InitKeyword /\ [][NextKeyword]_vars

\* The keywords as the specification lists them, each with its kind.
StatedKeywords ==
    { <<"let", "LET">>,
      <<"const", "CONST">>,
      <<"fn", "FN">>,
      <<"function", "FUNCTION">>,
      <<"return", "RETURN">>,
      <<"if", "IF">>,
      <<"else", "ELSE">>,
      <<"while", "WHILE">>,
      <<"for", "FOR">>,
      <<"in", "IN">>,
      <<"true", "TRUE">>,
      <<"false", "FALSE">>,
      <<"null", "NULL">>,
      <<"import", "IMPORT">>,
      <<"as", "AS">>,
      <<"from", "FROM">>,
      <<"export", "EXPORT">>,
      <<"default", "DEFAULT">>,
      <<"spawn", "SPAWN">> }

\* The kind the specification gives an identifier.
StatedKind(text) ==
    IF \E p \in StatedKeywords : p[1] = Join(text)
    THEN (CHOOSE p \in StatedKeywords : p[1] = Join(text))[2]
    ELSE "NAME"

\* The kinds of the tokens that are not identifiers.
OtherKinds ==
    { "NUMBER", "STRING", "OP", "NEWLINE", "LPAREN", "RPAREN", "LBRACE",
      "RBRACE", "LBRACKET", "RBRACKET", "COMMA", "COLON", "DOT", "SEMICOLON",
      "EOF" }

\* The identifier that starts at a column of the (one-line) source: the
\* longest run of name characters from there.
IdentifierAt(src, col) == Take(Drop(src, col - 1), Span(Drop(src, col - 1), NameChar))

\* C12: a token read by the NAME pattern has the upper-case kind of its
\* text if and only if the text is one of the nineteen keywords, exactly as
\* written; every other identifier is a NAME; the value is the text.
C12_KeywordsExact ==
    \A k \in DOMAIN tokens :
      tokens[k].type \notin OtherKinds =>
        /\ source[tokens[k].column] \in NameStart
        /\ tokens[k].value = IdentifierAt(source, tokens[k].column)
        /\ tokens[k].type = StatedKind(tokens[k].value)

\* Let and iffy have been read as names, let and if as keywords.
C12_Witness ==
    /\ pc = "parse"
    /\ source \in KeywordSamples
    /\ [k \in DOMAIN tokens |-> tokens[k].type]
         = << "NAME", "NAME", "LET", "IF", "EOF" >>


---------------------------------------------------------------------------
(* SpecOperator: tokenize on every one-line source over the characters of   *)
(* the two-character operators, a letter and a blank.                       *)

\* Longest source over OperatorAlphabet.
MaxOperatorLen == 4

OperatorAlphabet == { "=", "!", "<", ">", "&", "|", "a", " " }

InitOperator ==
    /\ pc = "tokenize"
    /\ caller = "lexer"
    /\ argv = <<>>
    /\ source \in SeqsUpTo(OperatorAlphabet, MaxOperatorLen)
    /\ options = CompileOptions("python", FALSE)
    /\ tokens = <<>>
    /\ Idle

NextOperator ==
    \/ TokenizeMatch
    \/ TokenizeEof

SpecOperator == InitOperator /\ [][NextOperator]_vars

\* The two-character operators as the specification lists them.
StatedTwoCharOps ==
    { <<"=", "=">>, <<"!", "=">>, <<"<", "=">>, <<">", "=">>, <<"=", ">">>,
      <<"&", "&">>, <<"|", "|">> }

\* The first two characters of the (one-line) source from a column on.
TwoAt(src, col) == Take(Drop(src, col - 1), 2)

\* C13: where the input left to read starts with a two-character operator,
\* the token read there is one OP token with these two characters (so the
\* lexer neither reads the first character alone nor fails there), and no
\* token is a lone & or |.
C13_TwoCharacterFirst ==
    /\ \A k \in DOMAIN tokens :
         /\ TwoAt(source, tokens[k].column) \in StatedTwoCharOps =>
              /\ tokens[k].type = "OP"
              /\ tokens[k].value = TwoAt(source, tokens[k].column)
         /\ tokens[k].value \notin { <<"&">>, <<"|">> }
    /\ exc # NoExc => TwoAt(source, index + 1) \notin StatedTwoCharOps

\* The source <== has been read as <= and =.
C13_Witness ==
    /\ pc = "parse"
    /\ Len(tokens) = 3
    /\ tokens[1].value = <<"<", "=">>
    /\ tokens[2].value = <<"=">>


---------------------------------------------------------------------------
(* SpecEmit: programs of a few statements, at the top level or inside        *)
(* blocks, are parsed and generated in the Python and JavaScript targets.   *)

\* Most statements in the sequence a program is made of.
MaxStatements == 2

\* The statements:
\*   import " x"
\*   import d, { a, b as c } from "m"
\*   export { a as b } from "m"
\*   export { a }
\*   let x = 1
\*   export const y = 2
\*   export default let z = 3
\*   export default fn() { }
\*   export fn g() { return 1 }
\*   return
EmitStatements ==
    { <<"i","m","p","o","r","t"," ","\""," ","x","\"">>,
      <<"i","m","p","o","r","t"," ","d",","," ","{"," ","a",","," ","b"," ","a","s"," ","c"," ","}"," ","f","r","o","m"," ","\"","m","\"">>,
      <<"e","x","p","o","r","t"," ","{"," ","a"," ","a","s"," ","b"," ","}"," ","f","r","o","m"," ","\"","m","\"">>,
      <<"e","x","p","o","r","t"," ","{"," ","a"," ","}">>,
      <<"l","e","t"," ","x"," ","="," ","1">>,
      <<"e","x","p","o","r","t"," ","c","o","n","s","t"," ","y"," ","="," ","2">>,
      <<"e","x","p","o","r","t"," ","d","e","f","a","u","l","t"," ","l","e","t"," ","z"," ","="," ","3">>,
      <<"e","x","p","o","r","t"," ","d","e","f","a","u","l","t"," ","f","n","(",")"," ","{"," ","}">>,
      <<"e","x","p","o","r","t"," ","f","n"," ","g","(",")"," ","{"," ","r","e","t","u","r","n"," ","1"," ","}">>,
      <<"r","e","t","u","r","n">> }

\* What stands before and after the statements:
\*   (nothing), fn k() { .. },
\*   if a { .. } else { import { q } from "m" },
\*   for x in y { while a { .. } }
EmitContexts ==
    { << <<>>,
         <<>> >>,
      << <<"f","n"," ","k","(",")"," ","{"," ">>,
         <<" ","}">> >>,
      << <<"i","f"," ","a"," ","{"," ">>,
         <<" ","}"," ","e","l","s","e"," ","{"," ","i","m","p","o","r","t"," ","{"," ","q"," ","}"," ","f","r","o","m"," ","\"","m","\""," ","}">> >>,
      << <<"f","o","r"," ","x"," ","i","n"," ","y"," ","{"," ","w","h","i","l","e"," ","a"," ","{"," ">>,
         <<" ","}"," ","}">> >> }

\* The statements of a sequence, one per line.
RECURSIVE Lines(_)
Lines(stmts) ==
    IF stmts = <<>> THEN <<>>
    ELSE IF Len(stmts) = 1 THEN stmts[1]
    ELSE stmts[1] \o <<"\n">> \o Lines(Tail(stmts))

EmitSources ==
    { ctx[1] \o Lines(stmts) \o ctx[2] :
        ctx \in EmitContexts, stmts \in SeqsUpTo(EmitStatements, MaxStatements) }

InitEmit ==
    /\ pc = "parse"
    /\ caller = "emit"
    /\ argv = <<>>
    /\ source \in EmitSources
    /\ options \in { CompileOptions(t, FALSE) : t \in { "python", "javascript" } }
    /\ tokens = tokenize(source).tokens
    /\ Idle

NextEmit ==
    \/ Parse
    \/ Generate

SpecEmit == InitEmit /\ [][NextEmit]_vars

\* The target is the JavaScript one.
Js == options.target = "javascript"

\* The lines generate returned.
Output == result.output_text[1]

\* The number of blanks a line starts with.
LeadingSpaces(l) == Span(l, { " " })

\* The visitor after generate's lines before the body and the visits of
\* the first statements of the module.
Visited(body) ==
    IF Js THEN js_visit_body(js_prelude(NewVisitor), body)
    ELSE py_visit_body(py_prelude(NewVisitor), body)

\* n lines at level d.
Levels(n, d) == [k \in 1..n |-> d]

ExportCount(node) ==
    (IF node.exported THEN 1 ELSE 0) + (IF node.is_default THEN 1 ELSE 0)

\* The level of each line of a statement that is visited at level d, as
\* the tables of the two targets lay the lines out: a block is one level
\* deeper than the line that opens it, and the JavaScript target closes it
\* with a line at the level of the opening one.
RECURSIVE LineLevels(_, _, _), BodyLevels(_, _, _)
LineLevels(js, node, d) ==
    CASE node.kind = "ImportFrom" ->
            Levels(1 + Len(node.namespace_name) + Len(node.default_name)
                     + Len(node.names), d)
      [] node.kind = "Let" -> Levels(1 + ExportCount(node), d)
      [] node.kind = "ExportNames" -> Levels(Len(node.source) + Len(node.names), d)
      [] node.kind = "FunctionDef" ->
            <<d>> \o BodyLevels(js, node.body, d + 1)
            \o (IF js \/ node.body = <<>>
                      \/ node.body[Len(node.body)].kind # "Return"
                THEN <<d + 1>> ELSE <<>>)
            \o (IF js THEN <<d>> ELSE <<>>)
            \o Levels(ExportCount(node) + 1, d)
      [] node.kind = "If" ->
            <<d>> \o BodyLevels(js, node.body, d + 1)
            \o (IF node.orelse # <<>>
                THEN <<d>> \o BodyLevels(js, node.orelse, d + 1) ELSE <<>>)
            \o (IF js THEN <<d>> ELSE <<>>)
      [] node.kind \in { "While", "For" } ->
            <<d>> \o BodyLevels(js, node.body, d + 1)
            \o (IF js THEN <<d>> ELSE <<>>)
      [] OTHER -> <<d>>

BodyLevels(js, body, d) ==
    IF body = <<>> THEN <<>>
    ELSE LineLevels(js, Head(body), d) \o BodyLevels(js, Tail(body), d)

\* The levels of the lines around the body.
PreludeLevels(js) == IF js THEN Levels(4, 0) ELSE <<0, 0, 0, 0, 1, 1, 2, 3, 2, 0, 0, 0, 0>>

EpilogueLevels(js) == IF js THEN Levels(3, 0) ELSE <<0, 0, 0, 0, 1>>

OutputLevels ==
    PreludeLevels(Js) \o BodyLevels(Js, module.body, 0) \o EpilogueLevels(Js)

\* The level is 0 before and after each top-level statement, and no visit
\* fails.
LevelZeroBetweenStatements ==
    \A k \in 0..Len(module.body) :
      /\ Visited(SubSeq(module.body, 1, k)).indent = 0
      /\ Visited(SubSeq(module.body, 1, k)).exc = NoExc

\* Every line starts with exactly four blanks per level.
LinesAtTheirLevel ==
    /\ Len(Output) = Len(OutputLevels)
    /\ \A i \in DOMAIN Output : LeadingSpaces(Output[i]) = 4 * OutputLevels[i]

\* C15: while a parsed program is generated in the Python or JavaScript
\* target, "Indentation underflow" is never raised, the level is 0 before
\* and after every top-level statement and when generate returns, and each
\* line of the output starts with exactly 4 x level blanks.
C15_IndentationSafe ==
    /\ exc # "Indentation underflow"
    /\ pc \in { "generate", "return" } => LevelZeroBetweenStatements
    /\ pc = "return" => visitor.indent = 0 /\ LinesAtTheirLevel

\* An Import of the module " x" inside a block has been generated in the
\* Python target: its line starts with five blanks at level 1.
C15_ImportMisindented ==
    /\ pc = "return"
    /\ ~Js
    /\ \E i \in DOMAIN Output :
         /\ OutputLevels[i] = 1
         /\ LeadingSpaces(Output[i]) = 5


---------------------------------------------------------------------------
(* The functions of a generated Python module (SpecEmit).                   *)

\* The statements of a body in the order they are visited, each before the
\* statements of its own bodies.
RECURSIVE Preorder(_)
Preorder(body) ==
    IF body = <<>> THEN <<>>
    ELSE << Head(body) >>
         \o (CASE Head(body).kind \in { "FunctionDef", "While", "For" } ->
                    Preorder(Head(body).body)
               [] Head(body).kind = "If" ->
                    Preorder(Head(body).body) \o Preorder(Head(body).orelse)
               [] OTHER -> <<>>)
         \o Preorder(Tail(body))

FunctionDefs == SelectSeq(Preorder(module.body), LAMBDA n : n.kind = "FunctionDef")

\* The line is what is left of l after its leading blanks.
Unindented(l) == SubSeq(l, LeadingSpaces(l) + 1, Len(l))

\* The numbers of the output lines that open a def.
DefLines ==
    SelectSeq([i \in 1..Len(Output) |-> i],
              LAMBDA i : Unindented(Output[i]) # <<>>
                         /\ Head(Unindented(Output[i])) = "def ")

\* The number of lines from line j on that are indented deeper than n.
RECURSIVE DeeperRun(_, _, _)
DeeperRun(lines, j, n) ==
    IF j > Len(lines) \/ LeadingSpaces(lines[j]) <= n THEN 0
    ELSE 1 + DeeperRun(lines, j + 1, n)

\* The def body of the def on line i: the lines after it that are indented
\* deeper than it.
DefBody(i) ==
    SubSeq(Output, i + 1, i + DeeperRun(Output, i + 1, LeadingSpaces(Output[i])))

\* The line "return None" one level below the def on line i.
ReturnNoneIn(i) == Levels(LeadingSpaces(Output[i]) + 4, " ") \o <<"return None">>

\* The body of f is empty or does not end with a Return.
EndsWithoutReturn(f) ==
    f.body = <<>> \/ f.body[Len(f.body)].kind # "Return"

\* The def body of f, opened on line i, is the lines of f's statements,
\* followed by "return None" exactly when f ends without a Return.
DefBodyAsStated(f, i) ==
    /\ Len(DefBody(i)) = Len(BodyLevels(FALSE, f.body, 0))
                           + (IF EndsWithoutReturn(f) THEN 1 ELSE 0)
    /\ EndsWithoutReturn(f) => DefBody(i)[Len(DefBody(i))] = ReturnNoneIn(i)
    /\ f.body = <<>> => DefBody(i) = << ReturnNoneIn(i) >>

\* C16: in the Python target the def body of every FunctionDef ends with
\* an appended "return None" line exactly when the function's body is
\* empty or its last statement is not a Return; the def body of a function
\* with an empty body is that one line.
C16_ReturnNoneAppended ==
    (pc = "return" /\ ~Js) =>
      /\ Len(DefLines) = Len(FunctionDefs)
      /\ \A k \in DOMAIN FunctionDefs : DefBodyAsStated(FunctionDefs[k], DefLines[k])

\* A function with an empty body and a function that ends with a Return
\* have been generated.
C16_Witness ==
    /\ pc = "return"
    /\ ~Js
    /\ \E k \in DOMAIN FunctionDefs : FunctionDefs[k].body = <<>>
    /\ \E k \in DOMAIN FunctionDefs : ~EndsWithoutReturn(FunctionDefs[k])


---------------------------------------------------------------------------
(* The declarations of a generated Python module (SpecEmit).                *)

\* The statements of a body in the order they are visited, each with the
\* number of the output line its first line is, when the first line of the
\* body is line `at`.
RECURSIVE Placed(_, _, _)
Placed(js, body, at) ==
    IF body = <<>> THEN <<>>
    ELSE << << Head(body), at >> >>
         \o (CASE Head(body).kind \in { "FunctionDef", "While", "For" } ->
                    Placed(js, Head(body).body, at + 1)
               [] Head(body).kind = "If" ->
                    Placed(js, Head(body).body, at + 1)
                    \o Placed(js, Head(body).orelse,
                              at + 2 + Len(BodyLevels(js, Head(body).body, 0)))
               [] OTHER -> <<>>)
         \o Placed(js, Tail(body), at + Len(LineLevels(js, Head(body), 0)))

\* The Let and FunctionDef nodes of the module, each with its line.
Declarations ==
    SelectSeq(Placed(Js, module.body, Len(PreludeLevels(Js)) + 1),
              LAMBDA p : p[1].kind \in { "Let", "FunctionDef" })

\* The numbers of the tokens let, const, fn and function: each starts a
\* declaration, in the order of Declarations.
DeclarationTokens ==
    SelectSeq([i \in 1..Len(tokens) |-> i],
              LAMBDA i : tokens[i].type \in { "LET", "CONST", "FN", "FUNCTION" })

\* The declaration that starts at token t is written after `export` or
\* `export default`; after `export default`.
WrittenExport(t) == t > 1 /\ tokens[t - 1].type \in { "EXPORT", "DEFAULT" }

WrittenDefault(t) == t > 2 /\ tokens[t - 1].type = "DEFAULT" /\ tokens[t - 2].type = "EXPORT"

\* The line of the definition itself: `<name> = ..` or `def <name>(..`.
IsDefinitionLine(node, l) ==
    IF node.kind = "Let"
    THEN Take(Unindented(l), Len(node.name) + 1) = node.name \o <<" = ">>
    ELSE Take(Unindented(l), Len(node.name) + 2) = <<"def ">> \o node.name \o <<"(">>

\* The number of the first line after the definition: after the line of a
\* Let, after the def body of a FunctionDef.
AfterDefinition(node, i) ==
    IF node.kind = "Let" THEN i + 1 ELSE i + 1 + Len(DefBody(i))

\* The export line and the default line as the specification writes them.
StatedExportLine(name) == <<"__trif_exports__['">> \o name \o <<"'] = ">> \o name

StatedDefaultLine(name) == <<"__trif_default_export__ = ">> \o name

StatedExportLines(name, t) ==
    (IF WrittenExport(t) THEN << StatedExportLine(name) >> ELSE <<>>)
    \o (IF WrittenDefault(t) THEN << StatedDefaultLine(name) >> ELSE <<>>)

\* The lines of the declaration `node`, which starts at token t and whose
\* first line is line i: the definition, then the export line if it is
\* written with `export`, then the default line if with `export default`,
\* all at the level of the definition, and no more.
DeclarationAsStated(node, i, t) ==
    /\ node.exported = WrittenExport(t)
    /\ node.is_default = WrittenDefault(t)
    /\ IsDefinitionLine(node, Output[i])
    /\ \A k \in DOMAIN StatedExportLines(node.name, t) :
         /\ Unindented(Output[AfterDefinition(node, i) + k - 1])
              = StatedExportLines(node.name, t)[k]
         /\ LeadingSpaces(Output[AfterDefinition(node, i) + k - 1])
              = LeadingSpaces(Output[i])

\* C17: in the Python target every Let and FunctionDef is followed by the
\* line __trif_exports__['<name>'] = <name> if and only if it is exported
\* and then by the line __trif_default_export__ = <name> if and only if it
\* is default; a declaration written without `export` has neither line and
\* one written with `export default` has both.
C17_ExportLines ==
    (pc = "return" /\ ~Js) =>
      /\ Len(Output) = Len(OutputLevels)
      /\ Len(Declarations) = Len(DeclarationTokens)
      /\ \A k \in DOMAIN Declarations :
           DeclarationAsStated(Declarations[k][1], Declarations[k][2],
                               DeclarationTokens[k])

\* A declaration without `export` and one with `export default` have been
\* generated.
C17_Witness ==
    /\ pc = "return"
    /\ ~Js
    /\ Len(Declarations) = Len(DeclarationTokens)
    /\ \E k \in DOMAIN Declarations : ~WrittenExport(DeclarationTokens[k])
    /\ \E k \in DOMAIN Declarations :
         /\ WrittenDefault(DeclarationTokens[k])
         /\ Declarations[k][1].exported
         /\ Declarations[k][1].is_default


---------------------------------------------------------------------------
(* The temporary names of a generated Python module (SpecEmit).             *)

\* The output lines that bind a temporary name, in the order of the text.
TempBindings ==
    SelectSeq(Output, LAMBDA l : Unindented(l) # <<>>
                                 /\ Head(Unindented(l)) = "__trif_")

\* The statements that take a temporary name, in body order: ImportFrom
\* and ExportNames with a source.
TempStatements ==
    SelectSeq(Preorder(module.body),
              LAMBDA n : \/ n.kind = "ImportFrom"
                         \/ (n.kind = "ExportNames" /\ n.source # None))

\* C18: in a generated Python module the k-th statement that takes a
\* temporary name, in body order and at any depth, binds
\* __trif_import_<k-1> (an ImportFrom) or __trif_export_<k-1> (a re-export
\* with a source), and nothing else binds a temporary name: the numbers are
\* pairwise distinct and count up from 0.
C18_TempsCountFromZero ==
    (pc = "return" /\ ~Js) =>
      /\ Len(TempBindings) = Len(TempStatements)
      /\ \A k \in DOMAIN TempStatements :
           /\ Unindented(TempBindings[k])[2]
                = (IF TempStatements[k].kind = "ImportFrom" THEN "import" ELSE "export")
           /\ Unindented(TempBindings[k])[3] = "_"
           /\ DefinesTemp(Unindented(TempBindings[k]), k - 1)

\* An ImportFrom and a re-export with a source inside a block, and an
\* ImportFrom in another block after them, have been generated.
C18_Witness ==
    /\ pc = "return"
    /\ ~Js
    /\ Len(TempStatements) = 3
    /\ Len(module.body) = 1
    /\ TempStatements[1].kind = "ImportFrom"
    /\ TempStatements[2].kind = "ExportNames"
    /\ DefinesTemp(Unindented(TempBindings[3]), 2)


---------------------------------------------------------------------------
(* The scopes of a generated JavaScript module (SpecEmit).                  *)

\* The line ends with an opening brace; the line starts with a closing one.
OpensBlock(l) == l # <<>> /\ l[Len(l)] \in { ") {", "} else {" }

ClosesBlock(l) == Unindented(l) # <<>> /\ Head(Unindented(l)) \in { "}", "} else {" }

\* The number of the line that opens the innermost block around the line
\* after line j, 0 for the scope of the module; `closed` counts the blocks
\* met on the way back that end before that line.
RECURSIVE Enclosing(_, _, _)
Enclosing(lines, j, closed) ==
    IF j = 0 THEN 0
    ELSE IF OpensBlock(lines[j]) /\ ClosesBlock(lines[j])
    THEN IF closed = 0 THEN j ELSE Enclosing(lines, j - 1, closed)
    ELSE IF ClosesBlock(lines[j]) THEN Enclosing(lines, j - 1, closed + 1)
    ELSE IF OpensBlock(lines[j])
    THEN IF closed = 0 THEN j ELSE Enclosing(lines, j - 1, closed - 1)
    ELSE Enclosing(lines, j - 1, closed)

\* The scope line i is in.
ScopeOf(i) == Enclosing(Output, i - 1, 0)

\* The numbers of the lines that declare __mod.
ModDeclarations ==
    { i \in DOMAIN Output :
        /\ Unindented(Output[i]) # <<>>
        /\ Head(Unindented(Output[i])) = "const __mod = await runtime.importModule('" }

\* The numbers of the lines that are the first line of an ImportFrom.
ImportFromLines ==
    { p[2] : p \in { q \in Range(Placed(Js, module.body, Len(PreludeLevels(Js)) + 1)) :
                       q[1].kind = "ImportFrom" } }

\* C19: in the JavaScript target the __mod of an ImportFrom is local to a
\* block of its own: no scope of a generated module holds the declaration
\* `const __mod` of an ImportFrom and another declaration `const __mod`,
\* whether of a second ImportFrom or of a re-export with a source.
C19_ModBlockLocal ==
    (pc = "return" /\ Js) =>
      /\ ImportFromLines \subseteq ModDeclarations
      /\ \A i \in ImportFromLines, j \in ModDeclarations :
           i # j => ScopeOf(i) # ScopeOf(j)

\* Two ImportFrom statements in one body have been generated: the scope
\* holds two declarations of __mod.
C19_TwoModInScope ==
    /\ pc = "return"
    /\ Js
    /\ \E k \in 1..(Len(module.body) - 1) :
         /\ module.body[k].kind = "ImportFrom"
         /\ module.body[k + 1].kind = "ImportFrom"
    /\ \E i, j \in ImportFromLines :
         i < j /\ { i, j } \subseteq ModDeclarations /\ ScopeOf(i) = 0 /\ ScopeOf(j) = 0


---------------------------------------------------------------------------
(* The messages of the lexer's failures (SpecLexer).                        *)

\* The text occurs in the message, followed by no further digit.
ContainsNumber(message, text) ==
    \E i \in 1..(Len(message) - Len(text) + 1) :
      /\ SubSeq(message, i, i + Len(text) - 1) = text
      /\ \/ i + Len(text) > Len(message)
         \/ SubSeq(message, i + Len(text), i + Len(text)) \notin Digit

\* The line and the column (both 1-based) of the character at the offset
\* tokenize failed at.
FailureLine == 1 + Count(Take(source, index), "\n")

FailureColumn ==
    IF Count(Take(source, index), "\n") = 0 THEN index + 1
    ELSE index - FindLast(Take(source, index), "\n")

\* C20: the message of either lexer failure, the unterminated block comment
\* and the unexpected character, holds the line and the column of the place
\* in the source where the lexer failed.
C20_FailuresPositioned ==
    exc # NoExc =>
      /\ ContainsNumber(exc, "line " \o ToString(FailureLine))
      /\ ContainsNumber(exc, "column " \o ToString(FailureColumn))

\* tokenize has failed at a block comment that is not closed, on the second
\* line: the message names the line and no column.
C20_CommentWithoutColumn ==
    /\ exc = "Unterminated block comment at line 2"
    /\ AtBlockComment(source, index)
    /\ FailureLine = 2



---------------------------------------------------------------------------
(* Block comments (SpecLexer).                                             *)

\* The message starts with the text.
StartsWith(message, text) ==
    Len(message) >= Len(text) /\ SubSeq(message, 1, Len(text)) = text

\* 0-based offset of the first "*/" that begins after the two characters of
\* the opener at the cursor, or -1.
CloserAfterOpener == Find2(source, "*", "/", index + 2)

\* C21: an iteration of tokenize that starts at "/*" moves the cursor just
\* past the first "*/" that begins after the opener and adds no token; when
\* there is no such "*/" it fails with "Unterminated block comment".
C21_CommentSkipped ==
    [][(pc = "tokenize" /\ index < Len(source) /\ AtBlockComment(source, index))
         => IF CloserAfterOpener = -1
            THEN StartsWith(exc', "Unterminated block comment")
            ELSE /\ exc' = NoExc
                 /\ index' = CloserAfterOpener + 2
                 /\ tokens' = tokens]_vars

\* tokenize has returned for the source "/*/": the three characters were
\* skipped as one comment and the stream holds the EOF token alone.
C21_OpenerStarReused ==
    /\ source = <<"/", "*", "/">>
    /\ pc = "parse"
    /\ exc = NoExc
    /\ [k \in DOMAIN tokens |-> tokens[k].type] = <<"EOF">>



---------------------------------------------------------------------------
(* SpecSpecifier: the parser on sources that are one statement              *)
(* "import L from M" or "export L from M", L a brace-delimited list of up   *)
(* to MaxSpecifierWords words and M a string literal or a dotted name.      *)

\* Most words between the braces.
MaxSpecifierWords == 4

SpecifierAlphabet == { <<"a">>, <<"b">>, <<"a","s">>, <<",">> }

SpecifierModules == { <<"\"","m","\"">>, <<"m",".","n">> }

ImportWord == <<"i","m","p","o","r","t">>

ExportWord == <<"e","x","p","o","r","t">>

\* keyword { words } from M
SpecifierSource(keyword, words, m) ==
    Spaced(<<keyword, <<"{">>>> \o words \o << <<"}">>, <<"f","r","o","m">>, m >>)

SpecifierSources ==
    { SpecifierSource(keyword, words, m) :
        keyword \in { ImportWord, ExportWord },
        words \in SeqsUpTo(SpecifierAlphabet, MaxSpecifierWords),
        m \in SpecifierModules }

InitSpecifier == ParserOn(SpecifierSources)

SpecSpecifier == InitSpecifier /\ [][Parse]_vars

\* The same statement with the other keyword: its source, and what the
\* parser makes of it.
Mirrored ==
    IF Take(source, 6) = ImportWord THEN ExportWord \o Drop(source, 6)
    ELSE ImportWord \o Drop(source, 6)

MirroredParse == parse(tokenize(Mirrored).tokens)

\* The (name, alias) pairs as they are written between the braces: one for
\* each NAME that does not follow AS, its alias the NAME after a following
\* AS, or else the name itself.
WrittenPairs ==
    LET close == FirstOf(tokens, 1, "RBRACE")
        names == { p \in 3..(close - 1) :
                     tokens[p].type = "NAME" /\ tokens[p - 1].type # "AS" }
        Pair(p) == << tokens[p].value,
                      IF tokens[p + 1].type = "AS" THEN tokens[p + 2].value
                      ELSE tokens[p].value >>
        RECURSIVE InOrderFrom(_)
        InOrderFrom(p) ==
            IF p >= close THEN <<>>
            ELSE (IF p \in names THEN << Pair(p) >> ELSE <<>>) \o InOrderFrom(p + 1)
    IN  InOrderFrom(3)

\* C22: "import L from M" is accepted exactly when "export L from M" is,
\* and then both hold the (name, alias) pairs written in L, in order, the
\* alias of a specifier without "as" being its name.
C22_SpecifiersMirror ==
    pc # "parse" =>
      /\ (pc = "generate") <=> MirroredParse.ok
      /\ (pc = "generate" /\ MirroredParse.ok) =>
           /\ module.body[1].names = MirroredParse.val.body[1].names
           /\ module.body[1].names = WrittenPairs

\* The import of an empty list was rejected, in the plain-import branch,
\* and the export of the same list from the same module is accepted.
C22_EmptyImportRejected ==
    /\ source = SpecifierSource(ImportWord, <<>>, <<"\"","m","\"">>)
    /\ pc = "catch"
    /\ exc = "Expected NAME but got FROM at line 1"
    /\ MirroredParse.ok
    /\ MirroredParse.val.body = << ExportNames(<<>>, Some(<<"m">>)) >>



---------------------------------------------------------------------------
(* SpecFrame: programs whose imports name modules with "." and "-" in them  *)
(* are parsed and generated in each of the three targets.                   *)

\* Most statements in the sequence a program is made of.
MaxFrameStatements == 2

\* The statements:
\*   import a.b
\*   import "x-y"
\*   import "p.q" as r
\*   import { q } from "m.n"
\*   export { a } from "m-n"
\*   let x = 1
FrameStatements ==
    { <<"i","m","p","o","r","t"," ","a",".","b">>,
      <<"i","m","p","o","r","t"," ","\"","x","-","y","\"">>,
      <<"i","m","p","o","r","t"," ","\"","p",".","q","\""," ","a","s"," ","r">>,
      <<"i","m","p","o","r","t"," ","{"," ","q"," ","}"," ","f","r","o","m"," ","\"","m",".","n","\"">>,
      <<"e","x","p","o","r","t"," ","{"," ","a"," ","}"," ","f","r","o","m"," ","\"","m","-","n","\"">>,
      <<"l","e","t"," ","x"," ","="," ","1">> }

FrameSources ==
    { ctx[1] \o Lines(stmts) \o ctx[2] :
        ctx \in EmitContexts, stmts \in SeqsUpTo(FrameStatements, MaxFrameStatements) }

InitFrame ==
    /\ pc = "parse"
    /\ caller = "frame"
    /\ argv = <<>>
    /\ source \in FrameSources
    /\ options \in { CompileOptions(t, FALSE) : t \in { "python", "javascript", "cpp" } }
    /\ tokens = tokenize(source).tokens
    /\ Idle

NextFrame ==
    \/ Parse
    \/ Generate

SpecFrame == InitFrame /\ [][NextFrame]_vars

---------------------------------------------------------------------------
(* SpecRender: a program that is one expression statement, built from the   *)
(* operands a, b, c with "-", "*", prefix "-" and parentheses, is compiled, *)
(* and the text the generator wrote for the expression is parsed again.     *)

\* Most operators (binary and prefix) in the expression.
MaxRenderOps == 2

RenderOperands == { <<"a">>, <<"b">>, <<"c">> }

RenderOperators == { <<"-">>, <<"*">> }

\* The expressions with n operators, and the same as operands of a larger
\* expression: as they are, and (when n > 0) in parentheses.
RECURSIVE RenderTexts(_), RenderOperandTexts(_)
RenderTexts(n) ==
    IF n = 0 THEN RenderOperands
    ELSE { <<"-">> \o x : x \in RenderOperandTexts(n - 1) }
         \cup UNION { { x \o <<" ">> \o op \o <<" ">> \o y :
                          x \in RenderOperandTexts(i),
                          y \in RenderOperandTexts(n - 1 - i),
                          op \in RenderOperators } : i \in 0..(n - 1) }

RenderOperandTexts(n) ==
    RenderTexts(n)
    \cup (IF n > 0 THEN { <<"(">> \o x \o <<")">> : x \in RenderTexts(n) } ELSE {})

RenderSources == UNION { RenderTexts(n) : n \in 0..MaxRenderOps }

InitRender ==
    /\ pc = "parse"
    /\ caller = "render"
    /\ argv = <<>>
    /\ source \in RenderSources
    /\ options \in { CompileOptions(t, FALSE) : t \in { "python", "javascript" } }
    /\ tokens = tokenize(source).tokens
    /\ Idle

\* The text render_expression returned for the one statement of the
\* program: the line after generate's first lines, without the ";" that
\* the JavaScript visitor adds to an expression statement.
RenderedText ==
    LET l == Output[Len(Visited(<<>>).stream) + 1]
    IN  IF Js THEN Take(l, Len(l) - 1) ELSE l

\* The rendered text is given to lexer::tokenize and the parser.
ParseRendered ==
    /\ pc = "return"
    /\ caller = "render"
    /\ ~previous.edited
    /\ source' = RenderedText
    /\ tokens' = tokenize(RenderedText).tokens
    /\ previous' = [edited |-> TRUE, source |-> source, module |-> module]
    /\ module' = NoModule
    /\ result' = NoResult
    /\ pc' = "parse"
    /\ UNCHANGED <<caller, mainVars, options, lexVars, visitor, exc, runs>>

NextRender ==
    \/ Parse
    \/ Generate
    \/ ParseRendered

SpecRender == InitRender /\ [][NextRender]_vars

\* C24: the text rendered for an expression the parser built is accepted
\* by the parser and gives the same expression again, in both targets.
C24_RenderingKeepsStructure ==
    (previous.edited /\ pc # "parse") =>
      /\ pc # "catch"
      /\ module = previous.module

\* "(a - b) * c" was rendered as "a - b * c": the product of a difference
\* came back as a difference whose right operand is a product.
C24_ParenthesesLost ==
    /\ previous.edited
    /\ pc = "generate"
    /\ previous.source = <<"(","a"," ","-"," ","b",")"," ","*"," ","c">>
    /\ previous.module.body
         = << BinaryOp(BinaryOp(Name(<<"a">>), <<"-">>, Name(<<"b">>)), <<"*">>,
                       Name(<<"c">>)) >>
    /\ source = <<"a"," ","-"," ","b"," ","*"," ","c">>
    /\ module.body
         = << BinaryOp(Name(<<"a">>), <<"-">>,
                       BinaryOp(Name(<<"b">>), <<"*">>, Name(<<"c">>))) >>



---------------------------------------------------------------------------
(* The positions of the tokens (SpecLexer).  A token that an iteration of   *)
(* tokenize adds starts at the cursor of that iteration, whose line and     *)
(* column in the source are FailureLine and FailureColumn.                  *)

\* C25: every token tokenize adds, the EOF token included, carries the line
\* and the column of its first character in the source, and so does the
\* message of an "Unexpected character" failure.
C25_PositionsAccurate ==
    [][/\ Len(tokens') = Len(tokens) + 1
            => /\ tokens'[Len(tokens')].line = FailureLine
               /\ tokens'[Len(tokens')].column = FailureColumn
       /\ (exc = NoExc /\ StartsWith(exc', "Unexpected character"))
            => /\ ContainsNumber(exc', "line " \o ToString(FailureLine))
               /\ ContainsNumber(exc', "column " \o ToString(FailureColumn))]_vars

\* tokenize has returned for a source that is a string literal with a line
\* feed in it, followed by a number: the number is the second character of
\* line 2 and its token says line 1, column 4.
C25_LineLostInString ==
    /\ source = <<"\"", "\n", "\"", "1">>
    /\ pc = "parse"
    /\ Len(tokens) = 3
    /\ tokens[2] = Token("NUMBER", <<"1">>, 1, 4)



---------------------------------------------------------------------------
(* SpecCursor: the parser on token streams that end in the middle of a      *)
(* statement, a block, a specifier list or an expression: every sequence    *)
(* of up to MaxCursorWords words of CursorAlphabet, and every prefix (by    *)
(* words) of three programs that between them use every loop of the parser. *)

\* Most words in a source over CursorAlphabet.
MaxCursorWords == 3

CursorAlphabet ==
    { <<"i","m","p","o","r","t">>, <<"a">>, <<",">>, <<"{">>, <<"f","r","o","m">>, <<"(">>, <<"f","n">>, <<"[">> }

\* The programs:
\*   import d , { a as b , c } from m . n ; export { a as b , } from "m" ; import * as n from "m"
\*   export default fn ( x , y ) { if a == b { return - f ( 1 , [ 2 , 3 ] ) . g } else { while ! a { for x in y { spawn f ( ) } } } }
\*   let x = { a : 1 , "k" : ( b || c ) && d } ; const y = 2 ; x . z = y
CursorPrograms ==
    { << <<"i","m","p","o","r","t">>, <<"d">>, <<",">>, <<"{">>, <<"a">>, <<"a","s">>, <<"b">>, <<",">>, <<"c">>, <<"}">>, <<"f","r","o","m">>, <<"m">>, <<".">>, <<"n">>, <<";">>, <<"e","x","p","o","r","t">>, <<"{">>, <<"a">>, <<"a","s">>, <<"b">>, <<",">>, <<"}">>, <<"f","r","o","m">>, <<"\"","m","\"">>, <<";">>, <<"i","m","p","o","r","t">>, <<"*">>, <<"a","s">>, <<"n">>, <<"f","r","o","m">>, <<"\"","m","\"">> >>,
      << <<"e","x","p","o","r","t">>, <<"d","e","f","a","u","l","t">>, <<"f","n">>, <<"(">>, <<"x">>, <<",">>, <<"y">>, <<")">>, <<"{">>, <<"i","f">>, <<"a">>, <<"=","=">>, <<"b">>, <<"{">>, <<"r","e","t","u","r","n">>, <<"-">>, <<"f">>, <<"(">>, <<"1">>, <<",">>, <<"[">>, <<"2">>, <<",">>, <<"3">>, <<"]">>, <<")">>, <<".">>, <<"g">>, <<"}">>, <<"e","l","s","e">>, <<"{">>, <<"w","h","i","l","e">>, <<"!">>, <<"a">>, <<"{">>, <<"f","o","r">>, <<"x">>, <<"i","n">>, <<"y">>, <<"{">>, <<"s","p","a","w","n">>, <<"f">>, <<"(">>, <<")">>, <<"}">>, <<"}">>, <<"}">>, <<"}">> >>,
      << <<"l","e","t">>, <<"x">>, <<"=">>, <<"{">>, <<"a">>, <<":">>, <<"1">>, <<",">>, <<"\"","k","\"">>, <<":">>, <<"(">>, <<"b">>, <<"|","|">>, <<"c">>, <<")">>, <<"&","&">>, <<"d">>, <<"}">>, <<";">>, <<"c","o","n","s","t">>, <<"y">>, <<"=">>, <<"2">>, <<";">>, <<"x">>, <<".">>, <<"z">>, <<"=">>, <<"y">> >> }

CursorSources ==
    { Spaced(words) : words \in SeqsUpTo(CursorAlphabet, MaxCursorWords) }
    \cup UNION { { Spaced(Take(p, n)) : n \in 0..Len(p) } : p \in CursorPrograms }

InitCursor == ParserOn(CursorSources)

SpecCursor == InitCursor /\ [][Parse]_vars

\* What parse() did on the stream: its result and the cursor at its return,
\* or its exception and the cursor at the throw.  The cursor only moves
\* forward, so it is the largest the cursor has been.
ParserOutcome == parse(tokens)

\* What the memory after the last token of the vector may hold.
AfterEnd ==
    { Token("COMMA", <<",">>, 0, 0), Token("FROM", <<"f","r","o","m">>, 0, 0),
      Token("RBRACE", <<"}">>, 0, 0), Token("NAME", <<"j">>, 0, 0),
      Token("NEWLINE", <<"\n">>, 0, 0) }

\* C26: on a stream that ends with its EOF token the cursor of the parser
\* never passes that token: an accepted parse ends with the cursor on it, a
\* rejected one throws with the cursor at or before it; peek(), which the
\* import statement evaluates at a NAME after IMPORT, reads a token of the
\* stream; and the outcome does not depend on what follows the stream in
\* memory.
C26_CursorInStream ==
    pc # "parse" =>
      /\ tokens[Len(tokens)].type = "EOF"
      /\ ParserOutcome.pos <= Len(tokens)
      /\ IF ParserOutcome.ok
         THEN pc = "generate" /\ ParserOutcome.pos = Len(tokens)
         ELSE pc = "catch" /\ exc = ParserOutcome.err
      /\ \A p \in DOMAIN tokens :
           (tokens[p].type = "IMPORT" /\ current(tokens, p + 1).type = "NAME")
           => p + 2 <= Len(tokens)
      /\ \A junk \in AfterEnd : parse(Append(tokens, junk)) = ParserOutcome

\* The stream ended inside the argument list of a call, in a list, in the
\* body of a for loop nested in four blocks: parse() threw at the EOF token,
\* with the cursor on it.
C26_Witness ==
    /\ pc = "catch"
    /\ Len(tokens) > 30
    /\ tokens[Len(tokens) - 1].type = "LPAREN"
    /\ tokens[Len(tokens) - 3].type = "SPAWN"
    /\ ParserOutcome.pos = Len(tokens)
    /\ exc = "Unexpected token EOF at line 1"



---------------------------------------------------------------------------
(* SpecTerminate: compile_source from its first statement to its return or  *)
(* to the exception that leaves it, on every source of up to                *)
(* MaxTerminateWords words of TerminateAlphabet.  Each step that is enabled *)
(* is eventually taken: the program runs on.                                *)

\* Most words in a source.
MaxTerminateWords == 3

TerminateAlphabet ==
    { <<"f","n">>, <<"a">>, <<"(">>, <<")">>, <<"{">>, <<",">>, <<"-">>, <<"/","*","*","/">>, <<"\n">> }

\* Every sequence of words, and every prefix of the programs that use every
\* loop of the parser.
TerminateSources ==
    { Spaced(words) : words \in SeqsUpTo(TerminateAlphabet, MaxTerminateWords) }
    \cup UNION { { Spaced(Take(p, n)) : n \in 0..Len(p) } : p \in CursorPrograms }

InitTerminate ==
    /\ pc = "tokenize"
    /\ caller = "terminate"
    /\ argv = <<>>
    /\ source \in TerminateSources
    /\ options \in { CompileOptions(t, FALSE) : t \in { "python", "javascript" } }
    /\ tokens = <<>>
    /\ Idle

NextTerminate ==
    \/ TokenizeComment
    \/ TokenizeMatch
    \/ TokenizeEof
    \/ Parse
    \/ Generate
    \/ Catch

\* One iteration of tokenize's loop, or its last statement.
TokenizeStep == TokenizeComment \/ TokenizeMatch \/ TokenizeEof

\* The program is one thread that runs on: the statement control is at is
\* eventually executed.  This is weak fairness of each statement, WF_vars(A),
\* written without ENABLED: A is the one step possible at its label and it
\* is possible in every state there (no branch of tokenize, parse, the
\* generators or the catch block waits for anything).
RunsOn ==
    /\ []<>(pc # "tokenize") \/ []<><<TokenizeStep>>_vars
    /\ []<>(pc # "parse") \/ []<><<Parse>>_vars
    /\ []<>(pc # "generate") \/ []<><<Generate>>_vars
    /\ []<>(pc # "catch") \/ []<><<Catch>>_vars

SpecTerminate ==
    InitTerminate /\ [][NextTerminate]_vars /\ RunsOn

\* An iteration of tokenize's loop moves index forward by at least one
\* character, or raises.
LexerAdvances ==
    (pc = "tokenize" /\ index < Len(source)) => (index' > index \/ exc' # NoExc)

\* Wherever in the stream a statement or an expression is parsed, its
\* parser returns with the cursor moved forward, or raises: an iteration of
\* the loops over statements (module body, block) and over expressions
\* (argument lists, list and dictionary literals, operands of the operator
\* chains) consumes at least one token.
ParserAdvances ==
    pc \notin { "tokenize" } /\ tokens # <<>> =>
      \A p \in DOMAIN tokens :
        /\ parse_statement(tokens, p).ok => parse_statement(tokens, p).pos > p
        /\ parse_expression(tokens, p).ok => parse_expression(tokens, p).pos > p
        /\ parse_block(tokens, p).ok => parse_block(tokens, p).pos > p

\* compile_source has returned its result, or its exception has left it.
Returned == pc \in { "return", "main_catch" }

\* C27: every iteration of tokenize and of the parser's loops makes
\* progress, and compile_source eventually returns a result or an error.
C27_Terminates ==
    /\ [][LexerAdvances]_vars
    /\ []ParserAdvances
    /\ <>Returned

\* compile_source has returned the result for the program whose function
\* has parameters, nested blocks, a call with arguments, a list and
\* operator chains.
C27_Witness ==
    /\ pc = "return"
    /\ Len(tokens) > 40
    /\ index = Len(source)
    /\ Len(module.body) = 1
    /\ module.body[1].kind = "FunctionDef"
    /\ module.body[1].body[1].kind = "If"
    /\ module.body[1].body[1].orelse[1].kind = "While"
    /\ result.output_text # <<>>



---------------------------------------------------------------------------
(* Block headers of the Python target (SpecEmit).                          *)

\* A line visit_if, visit_while, visit_for or visit_function_def emits to
\* open a block.
IsHeader(l) ==
    LET t == Unindented(l)
    IN  /\ t # <<>>
        /\ \/ t = <<"else:">>
           \/ /\ t[1] \in { "if ", "while ", "for ", "def " }
              /\ t[Len(t)] \in { ":", "):" }

\* Line k of the output is followed by a line that is indented deeper.
HasBody(k) ==
    /\ k < Len(Output)
    /\ LeadingSpaces(Output[k + 1]) > LeadingSpaces(Output[k])

\* C28: in the Python output every line that opens a block is followed at
\* once by a line at a deeper indent.
C28_HeadersHaveBodies ==
    (pc = "return" /\ ~Js) =>
        \A k \in DOMAIN Output : IsHeader(Output[k]) => HasBody(k)

\* "for x in y { while a {  } }" compiled to Python: the line "while a:" is
\* followed by the blank-free line that ends the module's statements.
C28_EmptyWhileBody ==
    /\ pc = "return"
    /\ ~Js
    /\ Len(module.body) = 1
    /\ module.body[1].kind = "For"
    /\ module.body[1].body[1].kind = "While"
    /\ module.body[1].body[1].body = <<>>
    /\ \E k \in DOMAIN Output :
          /\ Unindented(Output[k]) = <<"while ", "a", ":">>
          /\ ~HasBody(k)



---------------------------------------------------------------------------
(* SpecModuleName: one import or export statement whose module name is a   *)
(* string literal of up to MaxModuleAtoms atoms, compiled to Python and to  *)
(* JavaScript.                                                              *)

\* Most atoms in the payload of the module string.
MaxModuleAtoms == 2

\* What the payload is made of, as written in the source: a letter, a
\* hyphen, a single quote, an escaped backslash, an escaped line feed.
ModuleAtoms ==
    { <<"a">>, <<"-">>, <<"'">>, <<"\\", "\\">>, <<"\\", "n">> }

RECURSIVE Flat(_)
Flat(parts) == IF parts = <<>> THEN <<>> ELSE Head(parts) \o Flat(Tail(parts))

ModulePayloads == { Flat(atoms) : atoms \in SeqsUpTo(ModuleAtoms, MaxModuleAtoms) }

\*   import "<payload>"
\*   import "<payload>" as q
\*   import { x } from "<payload>"
\*   export { y } from "<payload>"
ModuleNameSources ==
    UNION { { <<"i","m","p","o","r","t"," ","\"">> \o p \o <<"\"">>,
              <<"i","m","p","o","r","t"," ","\"">> \o p \o <<"\""," ","a","s"," ","q">>,
              <<"i","m","p","o","r","t"," ","{"," ","x"," ","}"," ","f","r","o","m"," ","\"">> \o p \o <<"\"">>,
              <<"e","x","p","o","r","t"," ","{"," ","y"," ","}"," ","f","r","o","m"," ","\"">> \o p \o <<"\"">> } : p \in ModulePayloads }

InitModuleName ==
    /\ pc = "parse"
    /\ caller = "module_name"
    /\ argv = <<>>
    /\ source \in ModuleNameSources
    /\ options \in { CompileOptions(t, FALSE) : t \in { "python", "javascript" } }
    /\ tokens = tokenize(source).tokens
    /\ Idle

NextModuleName ==
    \/ Parse
    \/ Generate

SpecModuleName == InitModuleName /\ [][NextModuleName]_vars

\* The module name of the statement, as the parser decoded it.
ModuleName ==
    IF module.body[1].kind = "ExportNames" THEN module.body[1].source[1]
    ELSE module.body[1].module

\* The pieces of an emitted line that end with the quote that opens the
\* module literal.
Openers ==
    { " = runtime.import_module('",
      " = await runtime.importModule('",
      "const __mod = await runtime.importModule('" }

\* The characters of a piece of text.
Characters(piece) == [i \in 1..Len(piece) |-> SubSeq(piece, i, i)]

\* The characters of the line after the quote that opens the module
\* literal.
AfterOpener(l) ==
    LET j == CHOOSE i \in DOMAIN l : l[i] \in Openers
    IN  Flat([i \in 1..(Len(l) - j) |->
                IF Len(l[i + j]) = 1 THEN <<l[i + j]>> ELSE Characters(l[i + j])])

\* What a single-quoted string literal of Python / JavaScript denotes, read
\* from the character after its opening quote: the value and the text after
\* the closing quote; not ok when the line ends before the literal does.
RECURSIVE LiteralValue(_, _)
LiteralValue(js, text) ==
    IF text = <<>> \/ Head(text) = "\n" THEN [ok |-> FALSE, value |-> <<>>, rest |-> text]
    ELSE IF Head(text) = "'" THEN [ok |-> TRUE, value |-> <<>>, rest |-> Tail(text)]
    ELSE IF Head(text) = "\\"
    THEN IF Len(text) < 2 THEN [ok |-> FALSE, value |-> <<>>, rest |-> <<>>]
         ELSE LET c == text[2]
                  denoted == CASE c = "n" -> <<"\n">>
                               [] c = "t" -> <<"\t">>
                               [] c = "r" -> <<"\r">>
                               [] c \in { "\\", "'", "\"" } -> <<c>>
                               [] OTHER -> IF js THEN <<c>> ELSE <<"\\", c>>
                  more == LiteralValue(js, SubSeq(text, 3, Len(text)))
              IN  [more EXCEPT !.value = denoted \o @]
    ELSE LET more == LiteralValue(js, Tail(text))
         IN  [more EXCEPT !.value = <<Head(text)>> \o @]

\* The lines of the output that call import_module / importModule.
ModuleLines == { k \in DOMAIN Output : \E i \in DOMAIN Output[k] : Output[k][i] \in Openers }

\* C29: the literal passed to import_module / importModule denotes the
\* module name and is followed by nothing but the end of the call.
C29_ModuleNameFaithful ==
    pc = "return" =>
        \A k \in ModuleLines :
            LET literal == LiteralValue(Js, AfterOpener(Output[k]))
            IN  /\ literal.ok
                /\ literal.value = ModuleName
                /\ literal.rest = (IF Js THEN <<")", ";">> ELSE <<")">>)

\* import "'" as q compiled to Python: the argument of import_module is
\* three single quotes, an empty literal followed by a quote that opens
\* another.
C29_QuoteEndsLiteral ==
    /\ pc = "return"
    /\ ~Js
    /\ source = <<"i","m","p","o","r","t"," ","\"","'","\""," ","a","s"," ","q">>
    /\ ModuleName = <<"'">>
    /\ \E k \in ModuleLines :
          /\ Unindented(Output[k])
               = <<"q", " = runtime.import_module('", "'", "')">>
          /\ LiteralValue(FALSE, AfterOpener(Output[k]))
               = [ok |-> TRUE, value |-> <<>>, rest |-> <<"'", ")">>]



---------------------------------------------------------------------------
(* SpecNumber: one expression statement that is an integer literal of up   *)
(* to MaxDigits digits, compiled to Python and to JavaScript.               *)

\* Most digits in the literal.
MaxDigits == 7

\* The literals: every digit string over 0, 1 and 9, and 1234567.
NumberSources ==
    (SeqsUpTo({ "0", "1", "9" }, MaxDigits) \ { <<>> })
    \cup { <<"1","2","3","4","5","6","7">> }

InitNumber ==
    /\ pc = "parse"
    /\ caller = "number"
    /\ argv = <<>>
    /\ source \in NumberSources
    /\ options \in { CompileOptions(t, FALSE) : t \in { "python", "javascript" } }
    /\ tokens = tokenize(source).tokens
    /\ Idle

NextNumber ==
    \/ Parse
    \/ Generate

SpecNumber == InitNumber /\ [][NextNumber]_vars

\* The text emitted for the statement: the first line after the lines that
\* stand before the module's body, without the ";" of the JavaScript
\* statement.
NumberText ==
    LET l == Output[Len(Visited(<<>>).stream) + 1]
    IN  IF Js THEN Take(l, Len(l) - 1) ELSE l

\* The text is a numeral of Python / JavaScript (digits, optionally "." and
\* digits, optionally "e", a sign and digits) that denotes the natural
\* number n.
Denotes(text, n) ==
    LET i == Span(text, Digit)
        rest == Drop(text, i)
        fraction == IF rest # <<>> /\ Head(rest) = "."
                    THEN Take(Tail(rest), Span(Tail(rest), Digit)) ELSE <<>>
        tail == Drop(rest, IF rest # <<>> /\ Head(rest) = "."
                           THEN Len(fraction) + 1 ELSE 0)
        exponent == IF tail = <<>> THEN 0
                    ELSE IF tail[2] = "-" THEN 0 - ToNat(Drop(tail, 2))
                    ELSE ToNat(Drop(tail, 2))
        shift == exponent - Len(fraction)
        mantissa == ToNat(Take(text, i) \o fraction)
    IN  /\ i > 0
        /\ tail = <<>>
           \/ /\ Len(tail) >= 3
              /\ tail[1] = "e"
              /\ tail[2] \in { "+", "-" }
              /\ Span(Drop(tail, 2), Digit) = Len(tail) - 2
        /\ IF shift >= 0 THEN mantissa * Pow10(shift) = n
           ELSE mantissa = n * Pow10(0 - shift)

\* C30: the text emitted for an integer literal denotes the integer the
\* literal denotes.
C30_IntegerKept ==
    pc = "return" => Denotes(NumberText, ToNat(source))

\* 1234567 compiled to Python: the statement's line is 1.23457e+06, which
\* denotes 1234570.
C30_SeventhDigitLost ==
    /\ pc = "return"
    /\ ~Js
    /\ source = <<"1","2","3","4","5","6","7">>
    /\ module.body[1].kind = "Number"
    /\ NumberText = <<"1",".","2","3","4","5","7","e","+","0","6">>
    /\ Denotes(NumberText, 1234570)
    /\ ~Denotes(NumberText, 1234567)


=============================================================================
